---- MODULE Spec2Model ----
(***************************************************************************)
(* The dynamic taxonomy classification engine: the subcategory store       *)
(* (SimpleFirestoreSubcategoryClient), the Subcategory model and the       *)
(* classifier (SubcategoryClassifier) that resolves reports against it.    *)
(*                                                                         *)
(* Strings are sequences of one-character strings, so that lower(),        *)
(* strip() and split() are computed and not assumed.  Scores are integers  *)
(* in units of 1/ScoreScale; a mean is kept as the pair <<sum, count>>.    *)
(* An Optional value is a sequence of length at most one: None is <<>>.    *)
(***************************************************************************)
EXTENDS Integers, Sequences, FiniteSets, TLC

\* ------------------------------------------------------------------------
\* Bounds of the model
\* ------------------------------------------------------------------------

\* Number of concurrently running requests (tasks or worker processes).
NProcs == 2

\* Total number of calls the callers may start in one behaviour.
MaxCalls == 2

\* Number of store reads or writes that may fail in one behaviour.
MaxFaults == 2

\* ------------------------------------------------------------------------
\* Strings
\* ------------------------------------------------------------------------

UpperChars == <<"A","B","C","D","E","F","G","H","I","J","K","L","M",
                "N","O","P","Q","R","S","T","U","V","W","X","Y","Z">>

LowerChars == <<"a","b","c","d","e","f","g","h","i","j","k","l","m",
                "n","o","p","q","r","s","t","u","v","w","x","y","z">>

DigitChars == <<"0","1","2","3","4","5","6","7","8","9">>

Range(s) == {s[i] : i \in DOMAIN s}

IsSpace(c) == c \in {" ", "\t", "\n"}

IsAlnumChar(c) == c \in Range(UpperChars) \cup Range(LowerChars) \cup Range(DigitChars)

\* str.lower() on one character
LowerChar(c) ==
    IF c \in Range(UpperChars)
    THEN LowerChars[CHOOSE i \in DOMAIN UpperChars : UpperChars[i] = c]
    ELSE c

\* str.lower()
Lower(s) == [i \in DOMAIN s |-> LowerChar(s[i])]

\* str.strip(): leading and trailing whitespace removed
Strip(s) ==
    LET keep == {i \in DOMAIN s : ~IsSpace(s[i])}
    IN  IF keep = {} THEN <<>>
        ELSE LET lo == CHOOSE i \in keep : \A j \in keep : i <= j
                 hi == CHOOSE i \in keep : \A j \in keep : j <= i
             IN  SubSeq(s, lo, hi)

\* str.replace(c, ''): every occurrence of the character removed
RemoveChar(s, c) == SelectSeq(s, LAMBDA x : x # c)

\* str.isalnum(): non-empty and every character a letter or a digit
IsAlnum(s) == s # <<>> /\ \A i \in DOMAIN s : IsAlnumChar(s[i])

\* name.lower().strip(), the canonical form the store compares names in
Canon(s) == Strip(Lower(s))

UpperChar(c) ==
    IF \E i \in DOMAIN LowerChars : LowerChars[i] = c
    THEN UpperChars[CHOOSE i \in DOMAIN LowerChars : LowerChars[i] = c]
    ELSE c

IsLetterChar(c) == c \in Range(UpperChars) \cup Range(LowerChars)

\* str.title(): a letter that follows no letter is upper-cased, every
\* other letter lower-cased
Title(s) ==
    [i \in DOMAIN s |-> IF i = 1 \/ ~IsLetterChar(s[i - 1])
                        THEN UpperChar(s[i]) ELSE LowerChar(s[i])]

\* str.replace(a, b) for single characters
ReplaceChar(s, a, b) == [i \in DOMAIN s |-> IF s[i] = a THEN b ELSE s[i]]

\* name.replace('_', ' ').title(), the display name the classifier and
\* the seeding give a new entry
DisplayName(name) == Title(ReplaceChar(name, "_", " "))

\* ------------------------------------------------------------------------
\* Data model (data/models/subcategory_schemas.py, data/models/schemas.py)
\* ------------------------------------------------------------------------

EventTopic == {"traffic", "infrastructure", "weather", "events", "safety"}

SubcategoryStatus == {"active", "deprecated", "merged", "pending_review"}

SubcategorySource == {"predefined", "ai_generated", "user_submitted", "admin_added"}

None == <<>>

Some(v) == <<v>>

\* SubcategoryMetadata(): the default metadata of a new entry
SubcategoryMetadata ==
    [usage_count        |-> 0,
     confidence_scores  |-> <<>>,
     user_confirmations |-> 0,
     user_rejections    |-> 0,
     avg_confidence     |-> None]

\* The length limits pydantic puts on Subcategory.name
NameMinLength == 1

NameMaxLength == 50

\* Subcategory.validate_name with the Field constraints of name: the
\* constructor raises a validation error when this is false
NameValid(v) ==
    /\ Len(v) >= NameMinLength
    /\ Len(v) <= NameMaxLength
    /\ IsAlnum(RemoveChar(RemoveChar(v, "_"), "-"))

\* Subcategory(id=uuid4(), name=..., topic=..., display_name=...,
\* description=..., source=...) for a valid name.  The validator returns
\* v.lower().strip(), which is what is kept as name; description is an
\* Optional.
Subcategory(id, name, topic, display_name, description, source) ==
    [id       |-> id,
     name     |-> Canon(name),
     topic    |-> topic,
     display_name |-> display_name,
     description  |-> description,
     source   |-> source,
     status   |-> "active",
     aliases  |-> <<>>,
     metadata |-> SubcategoryMetadata]

RECURSIVE SumSeq(_)
SumSeq(s) == IF s = <<>> THEN 0 ELSE Head(s) + SumSeq(Tail(s))

\* The window of the rolling average
RecentWindow == 10

\* confidence_scores[-10:]
LastScores(s) ==
    IF Len(s) <= RecentWindow THEN s
    ELSE SubSeq(s, Len(s) - RecentWindow + 1, Len(s))

\* Subcategory.update_metadata on the metadata record
UpdateMetadata(m, confidence_score, user_confirmed, user_rejected) ==
    LET scores == IF confidence_score # None
                  THEN Append(m.confidence_scores, confidence_score[1])
                  ELSE m.confidence_scores
        recent == LastScores(scores)
    IN  [usage_count        |-> m.usage_count + 1,
         confidence_scores  |-> scores,
         avg_confidence     |-> IF confidence_score # None
                                THEN Some(<<SumSeq(recent), Len(recent)>>)
                                ELSE m.avg_confidence,
         user_confirmations |-> m.user_confirmations + (IF user_confirmed THEN 1 ELSE 0),
         user_rejections    |-> m.user_rejections + (IF user_rejected THEN 1 ELSE 0)]

\* ------------------------------------------------------------------------
\* The classifier's tables and pure functions
\* (data/processors/subcategory_classifier.py)
\* ------------------------------------------------------------------------

\* Scores are kept as integers in units of 1/ScoreScale, a multiple of
\* every word-set size the model's texts can produce, so that the ratio
\* |intersection| / |union| and the literals 0.1 .. 1.0 are exact.
ScoreScale == 2 * 2 * 2 * 3 * 3 * 5 * 7 * 11

Score(num, den) == (num * ScoreScale) \div den

\* SubcategoryClassifier.FALLBACK_SUBCATEGORIES, in dictionary order
FALLBACK_SUBCATEGORIES ==
    "traffic" :> <<
        [name |-> <<"a","c","c","i","d","e","n","t">>,
         description |-> <<"V","e","h","i","c","l","e"," ","a","c","c","i","d","e","n","t","s"," ","a","n","d"," ","c","o","l","l","i","s","i","o","n","s">>],
        [name |-> <<"c","o","n","g","e","s","t","i","o","n">>,
         description |-> <<"T","r","a","f","f","i","c"," ","j","a","m","s"," ","a","n","d"," ","s","l","o","w"," ","m","o","v","e","m","e","n","t">>],
        [name |-> <<"c","l","o","s","u","r","e">>,
         description |-> <<"R","o","a","d"," ","c","l","o","s","u","r","e","s"," ","a","n","d"," ","b","l","o","c","k","a","g","e","s">>],
        [name |-> <<"c","o","n","s","t","r","u","c","t","i","o","n">>,
         description |-> <<"R","o","a","d"," ","w","o","r","k"," ","a","n","d"," ","m","a","i","n","t","e","n","a","n","c","e">>],
        [name |-> <<"b","r","e","a","k","d","o","w","n">>,
         description |-> <<"V","e","h","i","c","l","e"," ","b","r","e","a","k","d","o","w","n","s">>],
        [name |-> <<"s","i","g","n","a","l","_","i","s","s","u","e">>,
         description |-> <<"T","r","a","f","f","i","c"," ","s","i","g","n","a","l"," ","p","r","o","b","l","e","m","s">>] >> @@
    "infrastructure" :> <<
        [name |-> <<"p","o","w","e","r","_","o","u","t","a","g","e">>,
         description |-> <<"E","l","e","c","t","r","i","c","i","t","y"," ","s","u","p","p","l","y"," ","d","i","s","r","u","p","t","i","o","n">>],
        [name |-> <<"w","a","t","e","r","_","s","u","p","p","l","y">>,
         description |-> <<"W","a","t","e","r"," ","a","v","a","i","l","a","b","i","l","i","t","y"," ","i","s","s","u","e","s">>],
        [name |-> <<"r","o","a","d","_","d","a","m","a","g","e">>,
         description |-> <<"D","a","m","a","g","e","d"," ","r","o","a","d","s"," ","a","n","d"," ","p","o","t","h","o","l","e","s">>],
        [name |-> <<"m","a","i","n","t","e","n","a","n","c","e">>,
         description |-> <<"S","c","h","e","d","u","l","e","d"," ","i","n","f","r","a","s","t","r","u","c","t","u","r","e"," ","w","o","r","k">>],
        [name |-> <<"n","e","t","w","o","r","k","_","i","s","s","u","e">>,
         description |-> <<"I","n","t","e","r","n","e","t"," ","a","n","d"," ","t","e","l","e","c","o","m"," ","p","r","o","b","l","e","m","s">>],
        [name |-> <<"w","a","s","t","e","_","m","a","n","a","g","e","m","e","n","t">>,
         description |-> <<"G","a","r","b","a","g","e"," ","c","o","l","l","e","c","t","i","o","n"," ","i","s","s","u","e","s">>] >> @@
    "weather" :> <<
        [name |-> <<"r","a","i","n">>,
         description |-> <<"R","a","i","n","f","a","l","l"," ","a","n","d"," ","p","r","e","c","i","p","i","t","a","t","i","o","n">>],
        [name |-> <<"f","l","o","o","d">>,
         description |-> <<"W","a","t","e","r","l","o","g","g","i","n","g"," ","a","n","d"," ","f","l","o","o","d","i","n","g">>],
        [name |-> <<"s","t","o","r","m">>,
         description |-> <<"S","e","v","e","r","e"," ","w","e","a","t","h","e","r"," ","c","o","n","d","i","t","i","o","n","s">>],
        [name |-> <<"h","e","a","t">>,
         description |-> <<"H","i","g","h"," ","t","e","m","p","e","r","a","t","u","r","e"," ","c","o","n","d","i","t","i","o","n","s">>],
        [name |-> <<"w","i","n","d">>,
         description |-> <<"S","t","r","o","n","g"," ","w","i","n","d"," ","c","o","n","d","i","t","i","o","n","s">>],
        [name |-> <<"f","o","g">>,
         description |-> <<"L","o","w"," ","v","i","s","i","b","i","l","i","t","y"," ","d","u","e"," ","t","o"," ","f","o","g">>] >> @@
    "events" :> <<
        [name |-> <<"c","u","l","t","u","r","a","l">>,
         description |-> <<"C","u","l","t","u","r","a","l"," ","f","e","s","t","i","v","a","l","s"," ","a","n","d"," ","c","e","l","e","b","r","a","t","i","o","n","s">>],
        [name |-> <<"s","p","o","r","t","s">>,
         description |-> <<"S","p","o","r","t","s"," ","e","v","e","n","t","s"," ","a","n","d"," ","c","o","m","p","e","t","i","t","i","o","n","s">>],
        [name |-> <<"t","e","c","h">>,
         description |-> <<"T","e","c","h","n","o","l","o","g","y"," ","e","v","e","n","t","s"," ","a","n","d"," ","m","e","e","t","u","p","s">>],
        [name |-> <<"m","u","s","i","c">>,
         description |-> <<"C","o","n","c","e","r","t","s"," ","a","n","d"," ","m","u","s","i","c","a","l"," ","e","v","e","n","t","s">>],
        [name |-> <<"p","o","l","i","t","i","c","a","l">>,
         description |-> <<"P","o","l","i","t","i","c","a","l"," ","r","a","l","l","i","e","s"," ","a","n","d"," ","m","e","e","t","i","n","g","s">>],
        [name |-> <<"r","e","l","i","g","i","o","u","s">>,
         description |-> <<"R","e","l","i","g","i","o","u","s"," ","g","a","t","h","e","r","i","n","g","s"," ","a","n","d"," ","f","e","s","t","i","v","a","l","s">>] >> @@
    "safety" :> <<
        [name |-> <<"f","i","r","e">>,
         description |-> <<"F","i","r","e"," ","e","m","e","r","g","e","n","c","i","e","s"," ","a","n","d"," ","i","n","c","i","d","e","n","t","s">>],
        [name |-> <<"e","m","e","r","g","e","n","c","y">>,
         description |-> <<"G","e","n","e","r","a","l"," ","e","m","e","r","g","e","n","c","y"," ","s","i","t","u","a","t","i","o","n","s">>],
        [name |-> <<"s","e","c","u","r","i","t","y">>,
         description |-> <<"S","e","c","u","r","i","t","y"," ","a","n","d"," ","s","a","f","e","t","y"," ","c","o","n","c","e","r","n","s">>],
        [name |-> <<"m","e","d","i","c","a","l">>,
         description |-> <<"M","e","d","i","c","a","l"," ","e","m","e","r","g","e","n","c","i","e","s">>],
        [name |-> <<"c","r","i","m","e">>,
         description |-> <<"C","r","i","m","i","n","a","l"," ","a","c","t","i","v","i","t","i","e","s">>],
        [name |-> <<"a","c","c","i","d","e","n","t">>,
         description |-> <<"S","a","f","e","t","y","-","r","e","l","a","t","e","d"," ","a","c","c","i","d","e","n","t","s">>] >>

\* The dictionary order of the keys of FALLBACK_SUBCATEGORIES
TopicOrder == <<"traffic", "infrastructure", "weather", "events", "safety">>

\* keyword_mapping of _extract_subcategory_from_text, in dictionary order;
\* a topic without an entry has the empty mapping
keyword_mapping ==
    "traffic" :> <<
        [name |-> <<"a","c","c","i","d","e","n","t">>,
         keywords |-> <<<<"a","c","c","i","d","e","n","t">>,
                       <<"c","o","l","l","i","s","i","o","n">>,
                       <<"c","r","a","s","h">>>>],
        [name |-> <<"c","o","n","g","e","s","t","i","o","n">>,
         keywords |-> <<<<"t","r","a","f","f","i","c">>,
                       <<"j","a","m">>,
                       <<"c","o","n","g","e","s","t","i","o","n">>,
                       <<"s","l","o","w">>>>],
        [name |-> <<"c","l","o","s","u","r","e">>,
         keywords |-> <<<<"c","l","o","s","e","d">>,
                       <<"c","l","o","s","u","r","e">>,
                       <<"b","l","o","c","k","e","d">>>>],
        [name |-> <<"c","o","n","s","t","r","u","c","t","i","o","n">>,
         keywords |-> <<<<"c","o","n","s","t","r","u","c","t","i","o","n">>,
                       <<"w","o","r","k">>,
                       <<"r","e","p","a","i","r">>>>] >> @@
    "infrastructure" :> <<
        [name |-> <<"p","o","w","e","r","_","o","u","t","a","g","e">>,
         keywords |-> <<<<"p","o","w","e","r">>,
                       <<"e","l","e","c","t","r","i","c","i","t","y">>,
                       <<"o","u","t","a","g","e">>>>],
        [name |-> <<"w","a","t","e","r","_","s","u","p","p","l","y">>,
         keywords |-> <<<<"w","a","t","e","r">>,
                       <<"s","u","p","p","l","y">>,
                       <<"p","r","e","s","s","u","r","e">>>>],
        [name |-> <<"r","o","a","d","_","d","a","m","a","g","e">>,
         keywords |-> <<<<"p","o","t","h","o","l","e">>,
                       <<"d","a","m","a","g","e">>,
                       <<"r","o","a","d">>>>],
        [name |-> <<"m","a","i","n","t","e","n","a","n","c","e">>,
         keywords |-> <<<<"m","a","i","n","t","e","n","a","n","c","e">>,
                       <<"r","e","p","a","i","r">>,
                       <<"w","o","r","k">>>>] >> @@
    "weather" :> <<
        [name |-> <<"r","a","i","n">>,
         keywords |-> <<<<"r","a","i","n">>,
                       <<"r","a","i","n","f","a","l","l">>,
                       <<"d","r","i","z","z","l","e">>>>],
        [name |-> <<"f","l","o","o","d">>,
         keywords |-> <<<<"f","l","o","o","d">>,
                       <<"w","a","t","e","r","l","o","g">>,
                       <<"w","a","t","e","r">>>>],
        [name |-> <<"s","t","o","r","m">>,
         keywords |-> <<<<"s","t","o","r","m">>,
                       <<"t","h","u","n","d","e","r">>,
                       <<"l","i","g","h","t","n","i","n","g">>>>],
        [name |-> <<"h","e","a","t">>,
         keywords |-> <<<<"h","e","a","t">>,
                       <<"h","o","t">>,
                       <<"t","e","m","p","e","r","a","t","u","r","e">>>>] >> @@
    "events" :> <<>> @@
    "safety" :> <<>>

General == <<"g","e","n","e","r","a","l">>

\* needle in haystack (Python's substring test)
IsSubstring(needle, hay) ==
    \E i \in 0..(Len(hay) - Len(needle)) :
        \A j \in 1..Len(needle) : hay[i + j] = needle[j]

\* The first element of a sequence satisfying Test, as an Optional
FirstWhere(s, Test(_)) ==
    LET hits == {i \in DOMAIN s : Test(s[i])}
    IN  IF hits = {} THEN None
        ELSE Some(s[CHOOSE i \in hits : \A j \in hits : i <= j])

\* str.split(): the set of maximal runs of non-whitespace characters
Words(s) ==
    LET starts == {i \in DOMAIN s : ~IsSpace(s[i]) /\ (i = 1 \/ IsSpace(s[i - 1]))}
        EndOf(i) == CHOOSE k \in i..Len(s) :
                        /\ \A j \in i..k : ~IsSpace(s[j])
                        /\ (k = Len(s) \/ IsSpace(s[k + 1]))
    IN  {SubSeq(s, i, EndOf(i)) : i \in starts}

\* re.sub(r'_+', '_', s): every run of underscores collapsed to one
\* A variant of CollapseUnderscores that keeps every underscore
KeepUnderscores(s) == s

CollapseUnderscores(s) ==
    LET keep == {i \in DOMAIN s : ~(s[i] = "_" /\ i > 1 /\ s[i - 1] = "_")}
        F[i \in 0..Len(s)] ==
            IF i = 0 THEN <<>>
            ELSE IF i \in keep THEN Append(F[i - 1], s[i]) ELSE F[i - 1]
    IN  F[Len(s)]

\* str.strip('_')
StripUnderscores(s) ==
    LET keep == {i \in DOMAIN s : s[i] # "_"}
    IN  IF keep = {} THEN <<>>
        ELSE LET lo == CHOOSE i \in keep : \A j \in keep : i <= j
                 hi == CHOOSE i \in keep : \A j \in keep : j <= i
             IN  SubSeq(s, lo, hi)

\* SubcategoryClassifier._clean_subcategory_name
_clean_subcategory_name(name) ==
    IF name = <<>> THEN General
    ELSE LET base     == Strip(Lower(name))
             replaced == [i \in DOMAIN base |->
                            IF IsAlnumChar(base[i]) \/ base[i] \in {"_", "-"}
                            THEN base[i] ELSE "_"]
             cleaned  == StripUnderscores(CollapseUnderscores(replaced))
         IN  IF cleaned = <<>> THEN General ELSE cleaned

\* SubcategoryClassifier._extract_subcategory_from_text
_extract_subcategory_from_text(text, topic) ==
    LET text_lower == Lower(text)
        byName == FirstWhere(FALLBACK_SUBCATEGORIES[topic],
                             LAMBDA row : IsSubstring(row.name, text_lower))
        byKeyword == FirstWhere(keyword_mapping[topic],
                        LAMBDA row : \E k \in DOMAIN row.keywords :
                                        IsSubstring(row.keywords[k], text_lower))
    IN  IF byName # None THEN byName[1].name
        ELSE IF byKeyword # None THEN byKeyword[1].name
        ELSE General

\* SubcategoryClassifier._calculate_text_similarity, in units of 1/ScoreScale
_calculate_text_similarity(text1, text2) ==
    LET words1 == Words(Lower(text1))
        words2 == Words(Lower(text2))
    IN  IF words1 = {} \/ words2 = {} THEN 0
        ELSE Score(Cardinality(words1 \cap words2), Cardinality(words1 \cup words2))

\* The floor best_score starts from (0.2)
FallbackFloor == Score(2, 10)

\* The loop of _classify_with_fallback over the topic's table: the pair
\* [best_match, best_score] after the first n rows
\* A variant of BestMatch in which a later row of equal score wins
BestMatchLast(title_desc, topic) ==
    LET rows == FALLBACK_SUBCATEGORIES[topic]
        F[n \in 0..Len(rows)] ==
            IF n = 0 THEN [best_match |-> General,
                           best_score |-> FallbackFloor]
            ELSE LET score == _calculate_text_similarity(
                                 title_desc, rows[n].name \o <<" ">> \o rows[n].description)
                 IN  IF score >= F[n - 1].best_score
                     THEN [best_match |-> rows[n].name, best_score |-> score]
                     ELSE F[n - 1]
    IN  F[Len(rows)]

BestMatch(title_desc, topic) ==
    LET rows == FALLBACK_SUBCATEGORIES[topic]
        F[n \in 0..Len(rows)] ==
            IF n = 0 THEN [best_match |-> General,
                           best_score |-> FallbackFloor]
            ELSE LET score == _calculate_text_similarity(
                                 title_desc, rows[n].name \o <<" ">> \o rows[n].description)
                 IN  IF score > F[n - 1].best_score
                     THEN [best_match |-> rows[n].name, best_score |-> score]
                     ELSE F[n - 1]
    IN  F[Len(rows)]

\* ------------------------------------------------------------------------
\* Exceptions
\* ------------------------------------------------------------------------

\* The exception classes the model raises, each with its base class
ExceptionBase ==
    "Exception"          :> "BaseException" @@
    "ValueError"         :> "Exception" @@
    "JSONDecodeError"    :> "ValueError" @@
    "ValidationError"    :> "ValueError" @@
    "KeyError"           :> "Exception" @@
    "TypeError"          :> "Exception" @@
    "GoogleAPICallError" :> "Exception" @@
    "RuntimeError"       :> "Exception" @@
    "CancelledError"     :> "BaseException"

\* issubclass(e, cls)
RECURSIVE IsSubclass(_, _)
IsSubclass(e, cls) ==
    \/ e = cls
    \/ e \in DOMAIN ExceptionBase /\ IsSubclass(ExceptionBase[e], cls)

\* "except ValueError": a handler narrower than the code's
ExceptValueError(e) == IsSubclass(e, "ValueError")

\* "except Exception as e": whether the handler catches e.  Every handler
\* of the store and of the classifier but the parser's is of this form.
ExceptException(e) == IsSubclass(e, "Exception")

\* "except (json.JSONDecodeError, KeyError, ValueError)" of _parse_ai_response
ExceptParseErrors(e) ==
    IsSubclass(e, "JSONDecodeError") \/ IsSubclass(e, "KeyError") \/ IsSubclass(e, "ValueError")

\* ------------------------------------------------------------------------
\* The store's pure parts (data/database/simple_firestore_client.py)
\* ------------------------------------------------------------------------

\* The filter of get_subcategories_by_topic: status is an Optional
ByTopic(docs, topic, status) ==
    SelectSeq(docs, LAMBDA sc : sc.topic = topic /\ (status = None \/ sc.status = status[1]))

\* A lookup that compares names only
FindByNameOnly(subcategories, name) ==
    FirstWhere(subcategories, LAMBDA sc : sc.name = Canon(name))

\* The loop of _find_subcategory_by_name_or_alias over a listing
FindByNameOrAlias(subcategories, name) ==
    LET name_lower == Canon(name)
    IN  FirstWhere(subcategories,
                   LAMBDA sc : \/ sc.name = name_lower
                               \/ \E i \in DOMAIN sc.aliases : Lower(sc.aliases[i]) = name_lower)

\* The query of _get_subcategory_by_name: topic and name equal, any status
QueryByName(docs, topic, name) ==
    FirstWhere(docs, LAMBDA sc : sc.topic = topic /\ sc.name = Canon(name))

\* The document (or dictionary value) with the id, as an Optional
GetById(docs, id) == FirstWhere(docs, LAMBDA sc : sc.id = id)

\* doc_ref.update(doc): the document with that id replaced
PutEverywhere(docs, sc) == [i \in DOMAIN docs |-> sc]

PutById(docs, sc) == [i \in DOMAIN docs |-> IF docs[i].id = sc.id THEN sc ELSE docs[i]]

\* ------------------------------------------------------------------------
\* State
\* ------------------------------------------------------------------------

VARIABLES
    useDb,      \* TRUE: a Firestore database is attached; FALSE: _mock_data
    store,      \* the documents (or _mock_data values), in insertion order
    nextId,     \* the next fresh id (uuid4 never repeats)
    cur,        \* the task holding the event loop of the mock store, or 0
    loc,        \* each caller's running call: its position and its locals
    calls,      \* calls started so far
    faults,     \* store reads and writes that have failed so far
    down,       \* the database is unreachable: every read and write fails
    log,        \* history of the calls' outcomes (not program state)
    initialized \* EnhancedSubcategoryProcessor._initialized

vars == <<useDb, store, nextId, cur, loc, calls, faults, down, log, initialized>>

Procs == 1..NProcs

Min(S) == CHOOSE x \in S : \A y \in S : x <= y

Max(S) == CHOOSE x \in S : \A y \in S : y <= x

\* ClassificationResult(...): the record; its constructor raises a
\* validation error unless ConfidenceValid holds of the score
ClassificationResult(name, score, is_new, new_id, reasoning) ==
    [subcategory_name   |-> name,
     confidence_score   |-> score,
     is_new_subcategory |-> is_new,
     new_subcategory_id |-> new_id,
     reasoning          |-> reasoning]

\* Field(..., ge=0.0, le=1.0) of ClassificationResult.confidence_score
ConfidenceValid(score) == score >= 0 /\ score <= ScoreScale

\* What a finished call gave its caller: a value or an exception
NoRet ==
    [kind    |-> "none",
     exc     |-> "",
     ok      |-> FALSE,
     id      |-> 0,
     created |-> FALSE,
     result  |-> None]

Returned(ok, id, created) ==
    [NoRet EXCEPT !.kind = "value", !.ok = ok, !.id = id, !.created = created]

Raised(e) == [NoRet EXCEPT !.kind = "raise", !.exc = e]

NoAI == [name |-> <<>>, conf |-> 0, is_new |-> FALSE, reasoning |-> "", long |-> FALSE]

\* A caller that runs no call
Idle ==
    [op          |-> "none",
     pc          |-> "idle",
     topic       |-> "traffic",
     name        |-> <<>>,
     sub         |-> None,
     target      |-> 0,
     conf        |-> None,
     confirmed   |-> FALSE,
     rejected    |-> FALSE,
     snap        |-> None,
     title       |-> <<>>,
     description |-> <<>>,
     thr         |-> 0,
     existing    |-> <<>>,
     answer      |-> "",
     ai          |-> None,
     path        |-> "none",
     best        |-> None,
     resolved    |-> None,
     created     |-> FALSE,
     cancelled   |-> FALSE,
     long        |-> FALSE,
     ti          |-> 0,
     ri          |-> 0,
     query_text  |-> <<>>,
     max_results |-> 0,
     subcategories |-> <<>>,
     results     |-> <<>>,
     needs_review |-> <<>>,
     cleaned     |-> <<>>,
     ret         |-> NoRet]

\* ------------------------------------------------------------------------
\* The classifier's inputs: requests and answers of the text-generation
\* call, and what the classifier computes from them
\* ------------------------------------------------------------------------

\* The requests the callers classify: topic, title, description and
\* min_confidence_threshold (default 0.7)
ClassifyRequests ==
    {[topic |-> "traffic", title |-> <<"V","e","h","i","c","l","e">>,
      description |-> <<"a","c","c","i","d","e","n","t">>, thr |-> Score(7, 10)],
     [topic |-> "traffic", title |-> <<"H","e","l","l","o">>,
      description |-> <<"t","h","e","r","e">>, thr |-> Score(3, 10)]}

\* The text of a completion that is a JSON object with these two fields
JsonHead == <<"{","\"","s","u","b","c","a","t","e","g","o","r","y","_","n","a","m","e","\"",":"," ","\"">>

JsonMid == <<"\"",","," ","\"","c","o","n","f","i","d","e","n","c","e","_","s","c","o","r","e","\"",":"," ">>

JsonTail == <<"}">>

JsonText(name, scoreText) == JsonHead \o name \o JsonMid \o scoreText \o JsonTail

\* One answer of the text-generation call.  kind: "raise" (exc), "empty"
\* (no text), "text" (not JSON), "json" (an object: name, conf as an
\* Optional, is_new, long: a reasoning of more than 200 characters),
\* "badtype" (JSON whose fields have the wrong type).
Answer(kind, exc, text, name, conf, is_new, long) ==
    [kind |-> kind, exc |-> exc, text |-> text, name |-> name, conf |-> conf,
     is_new |-> is_new, long |-> long]

DroneSighting == <<"D","r","o","n","e"," ","S","i","g","h","t","i","n","g","!">>

Accident == <<"a","c","c","i","d","e","n","t">>

\* The answers the model draws from
AIAnswers ==
    {Answer("raise", "RuntimeError", <<>>, <<>>, None, FALSE, FALSE),
     Answer("empty", "", <<>>, <<>>, None, FALSE, FALSE),
     Answer("text", "", <<"a"," ","j","a","m">>, <<>>, None, FALSE, FALSE),
     Answer("badtype", "TypeError", <<"[","]">>, <<>>, None, FALSE, FALSE),
     Answer("json", "", JsonText(Accident, <<"1",".","5">>), Accident,
            Some(Score(15, 10)), FALSE, FALSE),
     Answer("json", "", JsonText(Accident, <<"0",".","9">>), Accident,
            Some(Score(9, 10)), TRUE, FALSE),
     Answer("json", "", <<>>, DroneSighting, None, TRUE, TRUE)}
    \cup {Answer("json", "", JsonText(DroneSighting, <<"0",".","9">>), DroneSighting,
                 Some(Score(9, 10)), b, FALSE) : b \in BOOLEAN}

Congestion == <<"c","o","n","g","e","s","t","i","o","n">>

\* Completions for the parsing on its own.  JSON objects with a
\* confidence_score above 1, below 0, within [0, 1] and without the field;
\* texts that are no JSON: one naming the stored entry "uas", one with a
\* keyword of the table, one with two names of the fallback table, one
\* with none of these
ParseAnswers ==
    {Answer("json", "", JsonText(Accident, <<"1",".","5">>), Accident,
            Some(Score(15, 10)), FALSE, FALSE),
     Answer("json", "", JsonText(Congestion, <<"-","0",".","5">>), Congestion,
            Some(0 - Score(5, 10)), FALSE, FALSE),
     Answer("json", "", JsonText(DroneSighting, <<"0",".","9">>), DroneSighting,
            Some(Score(9, 10)), TRUE, FALSE),
     Answer("json", "", JsonHead \o Accident \o <<"\"", "}">>, Accident, None, FALSE, FALSE),
     Answer("text", "", <<"A"," ","U","A","S"," ","f","l","i","g","h","t">>, <<>>, None, FALSE, FALSE),
     Answer("text", "", <<"a"," ","u","a","s"," ","f","l","i","g","h","t">>, <<>>, None, FALSE, FALSE),
     Answer("text", "", <<"c","r","a","s","h"," ","n","e","a","r"," ","b","r","i","d","g","e">>, <<>>, None, FALSE, FALSE),
     Answer("text", "", <<"c","l","o","s","u","r","e"," ","a","f","t","e","r"," ","a","c","c","i","d","e","n","t">>, <<>>, None, FALSE, FALSE),
     Answer("text", "", <<"n","o","t","h","i","n","g"," ","h","e","r","e">>, <<>>, None, FALSE, FALSE)}

\* A request that accepts every confidence the parsing can give
ParseRequests ==
    {[topic |-> "traffic", title |-> <<"H","e","l","l","o">>,
      description |-> <<"t","h","e","r","e">>, thr |-> 0]}

AIResult(name, conf, is_new, reasoning, long) ==
    [name |-> name, conf |-> conf, is_new |-> is_new, reasoning |-> reasoning, long |-> long]

\* What a function gives: a result, None, or an exception raised
Gives(result) == [kind |-> "result", exc |-> "", result |-> result]

GivesNone == [kind |-> "none", exc |-> "", result |-> NoAI]

Raises(e) == [kind |-> "raise", exc |-> e, result |-> NoAI]

\* The except branch of _parse_ai_response: the text-scan result
ParsedFromText(text, topic) ==
    AIResult(_extract_subcategory_from_text(text, topic), Score(3, 10), FALSE,
             "parsed_from_text", FALSE)

\* SubcategoryClassifier._parse_ai_response
_parse_ai_response(answer, topic) ==
    LET conf == IF answer.conf = None THEN Score(5, 10) ELSE answer.conf[1]
        e == CASE answer.kind = "text" -> "JSONDecodeError"
               [] answer.kind = "badtype" -> answer.exc
               [] answer.kind = "json" /\ ~ConfidenceValid(conf) -> "ValidationError"
               [] OTHER -> ""
    IN  IF e = ""
        THEN Gives(AIResult(_clean_subcategory_name(answer.name), conf, answer.is_new,
                            "ai", answer.long))
        ELSE IF ExceptParseErrors(e) THEN Gives(ParsedFromText(answer.text, topic))
        ELSE Raises(e)

\* SubcategoryClassifier._classify_with_ai
_classify_with_ai(answer, topic) ==
    LET parsed == _parse_ai_response(answer, topic)
        e == CASE answer.kind = "raise" -> answer.exc
               [] answer.kind = "empty" -> ""
               [] OTHER -> parsed.exc
    IN  IF e # "" THEN (IF ExceptException(e) THEN GivesNone ELSE Raises(e))
        ELSE IF answer.kind = "empty" THEN GivesNone
        ELSE parsed

\* f"{title} {description}".lower()
RequestText(title, description) == Lower(title \o <<" ">> \o description)

\* The rule-based match of each request, and what _classify_with_ai makes
\* of each answer: both are functions of their arguments alone
\* The requests _classify_with_fallback is called with on its own: weather
\* texts that score two rows alike, a later row highest, a row at the
\* floor exactly, no row at all, an empty text, and one row above the floor
FallbackRequests ==
    {[topic |-> "weather", title |-> <<"A","n","d">>,
      description |-> <<>>, thr |-> 0],
     [topic |-> "weather", title |-> <<"S","t","r","o","n","g"," ","W","i","n","d">>,
      description |-> <<"c","o","n","d","i","t","i","o","n","s">>, thr |-> 0],
     [topic |-> "weather", title |-> <<"a","n","d">>,
      description |-> <<"x">>, thr |-> 0],
     [topic |-> "weather", title |-> <<"H","e","l","l","o">>,
      description |-> <<"t","h","e","r","e">>, thr |-> 0],
     [topic |-> "weather", title |-> <<>>,
      description |-> <<>>, thr |-> 0],
     [topic |-> "weather", title |-> <<"L","o","w">>,
      description |-> <<"f","o","g">>, thr |-> 0]}

BestMatchOf ==
    [x \in {<<r.topic, RequestText(r.title, r.description)>> :
                r \in ClassifyRequests \cup FallbackRequests \cup ParseRequests} |->
        BestMatch(x[2], x[1])]

ClassifiedByAI ==
    [x \in (AIAnswers \cup ParseAnswers) \X {r.topic : r \in ClassifyRequests} |->
        _classify_with_ai(x[1], x[2])]

\* ------------------------------------------------------------------------
\* Returns: what a caller does with the value its callee gives back, up to
\* the next store or AI call.  From the outermost caller inwards.
\* ------------------------------------------------------------------------

\* A call ends: its locals go; what stays is the request, what its caller
\* was given and what the call resolved
Done(l, ret) ==
    [Idle EXCEPT !.op = l.op, !.pc = "done", !.topic = l.topic,
                 !.title = l.title, !.description = l.description,
                 !.answer = l.answer, !.path = l.path, !.ai = l.ai,
                 !.resolved = l.resolved, !.created = l.created,
                 !.cancelled = l.cancelled, !.query_text = l.query_text,
                 !.max_results = l.max_results, !.subcategories = l.subcategories,
                 !.results = l.results, !.needs_review = l.needs_review,
                 !.ret = ret]

\* An exception no handler on the way catches leaves the call
Escape(l, e) == Done(l, Raised(e))

\* The first position of update_subcategory_usage and of create_subcategory
UsagePc == IF useDb THEN "us_get" ELSE "us_mock"

CreatePc == IF useDb THEN "cr_query" ELSE "cr_mock"

ClassifyReturn(l, result) == Done(l, [Returned(TRUE, 0, FALSE) EXCEPT !.result = Some(result)])

\* The last-resort result of classify_subcategory's own handler
LastResort == ClassificationResult(General, Score(1, 10), FALSE, None, "classification_failed")

\* An exception reaches classify_subcategory's own handler
ClassifyRaise(l, e) ==
    IF ExceptException(e) THEN ClassifyReturn(l, LastResort) ELSE Escape(l, e)

TitleDesc(l) == RequestText(l.title, l.description)

\* classify_subcategory, step 4: _classify_with_fallback up to its
\* _find_or_create_subcategory call
EnterFallback(l) ==
    LET b == BestMatchOf[<<l.topic, TitleDesc(l)>>]
    IN  [l EXCEPT !.path = "fallback", !.best = Some(b), !.name = b.best_match,
                  !.long = FALSE, !.pc = "foc_find"]

\* A fallback that gives up when no entry was resolved
FallbackResultIfResolved(l) ==
    IF l.resolved = None THEN LastResort
    ELSE ClassificationResult(l.best[1].best_match, l.best[1].best_score, FALSE, None,
                              "fallback")

\* The result _classify_with_fallback returns
FallbackResult(l) ==
    ClassificationResult(l.best[1].best_match, l.best[1].best_score, FALSE, None, "fallback")

\* The result classify_subcategory returns on the AI path
AIPathResult(l) ==
    ClassificationResult(l.resolved[1].name, l.ai[1].conf, l.ai[1].is_new,
                         IF l.ai[1].is_new THEN Some(l.resolved[1].id) ELSE None,
                         l.ai[1].reasoning)

RetUsageOrFallback(l, ok) ==
    CASE l.op = "classify" /\ l.path = "ai" /\ ~ok -> EnterFallback(l)
      [] l.op = "classify" /\ l.path = "ai" -> ClassifyReturn(l, AIPathResult(l))
      [] l.op = "classify" /\ l.path = "fallback" -> ClassifyReturn(l, FallbackResult(l))
      [] OTHER -> Done(l, Returned(ok, l.target, FALSE))

\* update_subcategory_usage returned ok
RetUsage(l, ok) ==
    CASE l.op = "classify" /\ l.path = "ai" -> ClassifyReturn(l, AIPathResult(l))
      [] l.op = "classify" /\ l.path = "fallback" -> ClassifyReturn(l, FallbackResult(l))
      [] OTHER -> Done(l, Returned(ok, l.target, FALSE))

\* _find_or_create_subcategory returned sub (an Optional) to classify
RetFoc(l, sub) ==
    IF sub # None
    THEN [l EXCEPT !.resolved = sub, !.target = sub[1].id,
                   !.conf = Some(IF l.path = "ai" THEN l.ai[1].conf ELSE l.best[1].best_score),
                   !.confirmed = FALSE, !.rejected = FALSE, !.pc = UsagePc]
    ELSE IF l.path = "ai" THEN EnterFallback(l)
    ELSE ClassifyReturn(l, FallbackResult(l))

\* get_or_create_subcategory returned (sc, created)
RetGoc(l, sc, created) ==
    IF l.op = "get_or_create" THEN Done(l, Returned(TRUE, sc.id, created))
    ELSE RetFoc([l EXCEPT !.created = created], Some(sc))

\* _find_or_create_subcategory without its handler: the exception goes on
\* to classify_subcategory's
RaiseGocUncaught(l, e) ==
    IF l.op = "get_or_create" THEN Escape(l, e) ELSE ClassifyRaise(l, e)

\* get_or_create_subcategory raised e (its own handler logs and re-raises);
\* _find_or_create_subcategory's handler turns it into None
RaiseGoc(l, e) ==
    IF l.op = "get_or_create" THEN Escape(l, e)
    ELSE IF ExceptException(e) THEN RetFoc(l, None)
    ELSE Escape(l, e)

\* The table row the seeding loop is at, and the loop's next position
SeedRow(ti, ri) == FALLBACK_SUBCATEGORIES[TopicOrder[ti]][ri]

\* The entry the seeding loop builds from the table row at (ti, ri)
Predefined(id, ti, ri) ==
    Subcategory(id, SeedRow(ti, ri).name, TopicOrder[ti], DisplayName(SeedRow(ti, ri).name),
                Some(SeedRow(ti, ri).description), "predefined")

\* initialize_predefined_subcategories: the loop from position (ti, ri)
\* on, up to its create_subcategory call; past the table it returns True
SeedFrom(l, ti, ri) ==
    IF ti > Len(TopicOrder) THEN Done(l, Returned(TRUE, 0, FALSE))
    ELSE [l EXCEPT !.ti = ti, !.ri = ri,
                   !.topic = TopicOrder[ti],
                   !.name = SeedRow(ti, ri).name,
                   !.sub = Some(Predefined(nextId, ti, ri)),
                   !.pc = CreatePc]

\* create_subcategory returned ok
RetCreate(l, ok) ==
    CASE l.op = "create" -> Done(l, Returned(ok, l.sub[1].id, ok))
      [] l.op \in {"seed", "initialize"} ->
            IF l.ri < Len(FALLBACK_SUBCATEGORIES[TopicOrder[l.ti]])
            THEN SeedFrom(l, l.ti, l.ri + 1)
            ELSE SeedFrom(l, l.ti + 1, 1)
      [] OTHER -> IF ok THEN RetGoc(l, l.sub[1], TRUE)
                  ELSE [l EXCEPT !.pc = "goc_refind"]

\* ------------------------------------------------------------------------
\* Steps.  With a database attached every store read and write is a point
\* where other requests run, and may fail; on the mock store a call runs
\* to its end without yielding the event loop, and nothing fails.
\* ------------------------------------------------------------------------

\* What the database may raise on a read or a write
StoreErrors == {"GoogleAPICallError"}

\* The outcomes of one store read or write
IOResults ==
    IF useDb /\ down THEN StoreErrors
    ELSE {"ok"} \cup (IF useDb /\ faults < MaxFaults THEN StoreErrors ELSE {})

CanRun(p) == cur = 0 \/ cur = p

CanStart(p) ==
    /\ cur = 0
    /\ loc[p].pc \in {"idle", "done"}
    /\ calls < MaxCalls

\* One history record
Event(ev, topic, name, id, created, conf) ==
    [ev |-> ev, topic |-> topic, name |-> name, id |-> id, created |-> created, conf |-> conf]

\* The history records of a step that takes a caller from l to l2
EndEvents(l, l2) ==
    IF l2.pc = "done" /\ l2.ret.kind = "value" /\ l.op = "get_or_create"
    THEN <<Event("goc", l.topic, Canon(l.name), l2.ret.id, l2.ret.created, None)>>
    ELSE IF l2.pc = "done" /\ l2.ret.kind = "value" /\ l.op = "classify"
              /\ l2.resolved # None
    THEN <<Event("classified", l.topic, l2.ret.result[1].subcategory_name,
                 l2.resolved[1].id, l2.created, None)>>
    ELSE IF l2.pc = "done" /\ l2.ret.kind = "value"
              /\ (l.op = "seed" \/ (l.op = "initialize"
                                 /\ l.pc \in {"cr_query", "cr_set", "cr_mock"}))
    THEN <<Event("seeded", l.topic, <<>>, 0, FALSE, None)>>
    ELSE IF l2.pc = "done" /\ l2.ret.kind = "value" /\ l.op = "validate" /\ l2.ret.ok
    THEN <<[ev |-> "validated", id |-> l.target, confirmed |-> l.confirmed]>>
    ELSE <<>>

\* EnhancedSubcategoryProcessor.initialize gets to "self._initialized =
\* True": the step from l to l2 ends its seeding without an exception
InitializeReturns(l, l2) ==
    /\ l.op = "initialize"
    /\ l.pc \in {"cr_query", "cr_set", "cr_mock"}
    /\ l2.pc = "done"
    /\ l2.ret.kind = "value"

\* The caller p moves to l2; r is the outcome of the step's store access
\* and events the history records of the access itself
Commit(p, l2, r, events) ==
    /\ loc' = [loc EXCEPT ![p] = l2]
    /\ nextId' = IF l2.sub # None /\ l2.sub[1].id = nextId THEN nextId + 1 ELSE nextId
    /\ cur' = IF useDb \/ l2.pc = "done" THEN 0 ELSE p
    /\ faults' = IF r = "ok" \/ down THEN faults ELSE faults + 1
    /\ log' = log \o events \o EndEvents(loc[p], l2)
    /\ initialized' = (initialized \/ InitializeReturns(loc[p], l2))
    /\ UNCHANGED <<useDb, down>>

\* A caller starts a call at l2
Begin(p, l2) ==
    /\ CanStart(p)
    /\ calls' = calls + 1
    /\ Commit(p, l2, "ok", <<>>)
    /\ UNCHANGED store

\* get_subcategories_by_topic(topic, ACTIVE) with outcome r: its handler
\* returns [] for an exception it catches
Listing(topic, r) == IF r = "ok" THEN ByTopic(store, topic, Some("active")) ELSE <<>>

\* ---- get_or_create_subcategory ----

\* The names and topics the callers of get_or_create_subcategory pass
GocNames ==
    {<<"d","r","o","n","e">>, <<" ","D","r","o","n","e">>, <<"a"," ","b">>}

GocTopics == {"safety"}

StartGetOrCreate(p) ==
    \E t \in GocTopics, n \in GocNames :
        Begin(p, [Idle EXCEPT !.op = "get_or_create", !.pc = "goc_find",
                              !.topic = t, !.name = n])

\* Names for a store that has safety/fire and safety/uas with the alias
\* "Drone": a stored name, the alias, and a name the store does not have
StoredNames == {<<"f","i","r","e">>, <<"d","r","o","n","e">>, <<"s","m","o","k","e">>}

StartGetOrCreateStored(p) ==
    \E t \in GocTopics, n \in StoredNames :
        Begin(p, [Idle EXCEPT !.op = "get_or_create", !.pc = "goc_find",
                              !.topic = t, !.name = n])

\* The source _find_or_create_subcategory passes: AI_GENERATED with an
\* ai_result, PREDEFINED without; a direct caller gets the default
GocSource(l) == IF l.op = "classify" /\ l.path = "fallback" THEN "predefined" ELSE "ai_generated"

\* The display name of the new entry: the one _find_or_create_subcategory
\* passes, or name.title() for a caller that passes none
GocDisplayName(l) == IF l.op = "classify" THEN DisplayName(l.name) ELSE Title(l.name)

\* The reasoning texts of the two kinds of AI result: the default of
\* data.get("reasoning", ...) and the text-scan's
ReasoningText ==
    "ai" :> <<"A","I"," ","c","l","a","s","s","i","f","i","c","a","t","i","o","n">> @@
    "parsed_from_text" :> <<"P","a","r","s","e","d"," ","f","r","o","m"," ","t","e","x","t"," ","(","J","S","O","N"," ","p","a","r","s","i","n","g"," ","f","a","i","l","e","d",")">>

\* The fallback table's description of a name of the topic, if it has one
FallbackDescription(topic, name) ==
    LET rows == FALLBACK_SUBCATEGORIES[topic]
        at == {i \in DOMAIN rows : rows[i].name = name}
    IN  IF at = {} THEN None ELSE Some(rows[CHOOSE i \in at : TRUE].description)

\* The description _find_or_create_subcategory passes: the AI result's
\* reasoning, else the fallback table's description of the name; a
\* direct caller passes none
GocDescription(l) ==
    IF l.op # "classify" THEN None
    ELSE IF l.path = "ai" THEN Some(ReasoningText[l.ai[1].reasoning])
    ELSE FallbackDescription(l.topic, l.name)

\* Subcategory.description has max_length=200: the constructor raises for
\* a longer one (l.long: the description passed is longer)
SubcategoryValid(l) == NameValid(Canon(l.name)) /\ ~l.long

\* "First try to find existing", then the construction of the new entry
GocFind(p) ==
    LET l == loc[p] IN
    /\ l.pc = "goc_find"
    /\ CanRun(p)
    /\ \E r \in IOResults :
        /\ UNCHANGED <<store, calls>>
        /\ IF r # "ok" /\ ~ExceptException(r) THEN Commit(p, Escape(l, r), r, <<>>)
           ELSE LET existing == FindByNameOrAlias(Listing(l.topic, r), l.name)
                IN  IF existing # None THEN Commit(p, RetGoc(l, existing[1], FALSE), r, <<>>)
                    ELSE IF ~SubcategoryValid(l)
                    THEN Commit(p, RaiseGoc(l, "ValidationError"), r, <<>>)
                    ELSE Commit(p, [l EXCEPT !.sub = Some(Subcategory(nextId, l.name, l.topic,
                                                                      GocDisplayName(l),
                                                                      GocDescription(l),
                                                                      GocSource(l))),
                                             !.pc = CreatePc], r, <<>>)

\* "Might have been created by another process, try to get it"
GocRefind(p) ==
    LET l == loc[p] IN
    /\ l.pc = "goc_refind"
    /\ CanRun(p)
    /\ \E r \in IOResults :
        /\ UNCHANGED <<store, calls>>
        /\ IF r # "ok" /\ ~ExceptException(r) THEN Commit(p, Escape(l, r), r, <<>>)
           ELSE LET existing == FindByNameOrAlias(Listing(l.topic, r), l.name)
                IN  IF existing # None THEN Commit(p, RetGoc(l, existing[1], FALSE), r, <<>>)
                    ELSE Commit(p, RaiseGoc(l, "Exception"), r, <<>>)

\* ---- create_subcategory ----

\* The entries a direct caller of create_subcategory builds
CreateNames == {<<"f","i","r","e">>, <<"d","r","o","n","e">>}

CreateTopics == {"safety"}

StartCreate(p) ==
    \E t \in CreateTopics, n \in CreateNames :
        Begin(p, [Idle EXCEPT !.op = "create", !.pc = CreatePc, !.topic = t, !.name = n,
                              !.sub = Some(Subcategory(nextId, n, t, Title(n), None,
                                                       "admin_added"))])

\* "Check if subcategory already exists": _get_subcategory_by_name, whose
\* handler returns None for an exception it catches
CreateQuery(p) ==
    LET l == loc[p] IN
    /\ l.pc = "cr_query"
    /\ CanRun(p)
    /\ \E r \in IOResults :
        /\ UNCHANGED <<store, calls>>
        /\ IF r # "ok" /\ ~ExceptException(r) THEN Commit(p, Escape(l, r), r, <<>>)
           ELSE LET existing == IF r = "ok"
                                THEN QueryByName(store, l.sub[1].topic, l.sub[1].name)
                                ELSE None
                IN  IF existing # None THEN Commit(p, RetCreate(l, TRUE), r, <<>>)
                    ELSE Commit(p, [l EXCEPT !.pc = "cr_set"], r, <<>>)

\* "Set document directly (no transaction for simplicity)"; an exception
\* the handler catches makes create_subcategory return False
CreateSet(p) ==
    LET l == loc[p] IN
    /\ l.pc = "cr_set"
    /\ CanRun(p)
    /\ \E r \in IOResults :
        /\ UNCHANGED calls
        /\ IF r = "ok"
           THEN /\ store' = Append(store, l.sub[1])
                /\ Commit(p, RetCreate(l, TRUE), r, <<>>)
           ELSE /\ UNCHANGED store
                /\ IF ExceptException(r) THEN Commit(p, RetCreate(l, FALSE), r, <<>>)
                   ELSE Commit(p, Escape(l, r), r, <<>>)

\* _mock_create_subcategory
CreateMock(p) ==
    LET l == loc[p] IN
    /\ l.pc = "cr_mock"
    /\ CanRun(p)
    /\ UNCHANGED calls
    /\ store' = IF GetById(store, l.sub[1].id) # None THEN store
                ELSE Append(store, l.sub[1])
    /\ Commit(p, RetCreate(l, TRUE), "ok", <<>>)

\* ---- update_subcategory_usage ----

\* The scores a direct caller of update_subcategory_usage supplies
UsageScores == {Score(2, 10), Score(9, 10)}

\* The ids direct callers pass: of entries that may exist
UsageIds == 1..2

StartUsage(p) ==
    \E id \in UsageIds, c \in {None} \cup {Some(s) : s \in UsageScores} :
        Begin(p, [Idle EXCEPT !.op = "usage", !.pc = UsagePc, !.target = id, !.conf = c])

\* The ids of the seeded entries and one that no entry has
AnyIds == 1..3

\* update_subcategory_usage(id, ...) by a caller whose id may be unknown
StartUsageAny(p) ==
    \E id \in AnyIds, c \in {None} \cup {Some(s) : s \in UsageScores},
       user_confirmed \in BOOLEAN :
        Begin(p, [Idle EXCEPT !.op = "usage", !.pc = UsagePc, !.target = id, !.conf = c,
                              !.confirmed = user_confirmed])

\* EnhancedSubcategoryProcessor.validate_subcategory_choice
StartValidate(p) ==
    \E id \in UsageIds, user_confirmed \in BOOLEAN :
        Begin(p, [Idle EXCEPT !.op = "validate", !.pc = UsagePc, !.target = id,
                              !.conf = None,
                              !.confirmed = user_confirmed,
                              !.rejected = ~user_confirmed])

\* "Get current subcategory": get_subcategory, whose handler returns None
UsageGet(p) ==
    LET l == loc[p] IN
    /\ l.pc = "us_get"
    /\ CanRun(p)
    /\ \E r \in IOResults :
        /\ UNCHANGED <<store, calls>>
        /\ IF r # "ok" /\ ~ExceptException(r) THEN Commit(p, Escape(l, r), r, <<>>)
           ELSE LET sc == IF r = "ok" THEN GetById(store, l.target) ELSE None
                IN  IF sc = None THEN Commit(p, RetUsage(l, FALSE), r, <<>>)
                    ELSE Commit(p, [l EXCEPT !.snap = sc, !.pc = "us_write"], r, <<>>)

\* "Update metadata" on the copy read, then "Save back to Firestore"
UsageWrite(p) ==
    LET l == loc[p]
        updated == [l.snap[1] EXCEPT !.metadata =
                       UpdateMetadata(@, l.conf, l.confirmed, l.rejected)]
    IN
    /\ l.pc = "us_write"
    /\ CanRun(p)
    /\ \E r \in IOResults :
        /\ UNCHANGED calls
        /\ IF r = "ok"
           THEN /\ store' = PutById(store, updated)
                /\ Commit(p, RetUsage(l, TRUE), r,
                          <<Event("usage_ok", l.snap[1].topic, l.snap[1].name, l.target,
                                  FALSE, l.conf)>>)
           ELSE /\ UNCHANGED store
                /\ IF ExceptException(r) THEN Commit(p, RetUsage(l, FALSE), r, <<>>)
                   ELSE Commit(p, Escape(l, r), r, <<>>)

\* The mock branch: the object in _mock_data is updated in place
UsageMock(p) ==
    LET l == loc[p]
        sc == GetById(store, l.target)
    IN
    /\ l.pc = "us_mock"
    /\ CanRun(p)
    /\ UNCHANGED calls
    /\ IF sc # None
       THEN /\ store' = PutById(store, [sc[1] EXCEPT !.metadata =
                                          UpdateMetadata(@, l.conf, l.confirmed, l.rejected)])
            /\ Commit(p, RetUsage(l, TRUE), "ok",
                      <<Event("usage_ok", sc[1].topic, sc[1].name, l.target, FALSE, l.conf)>>)
       ELSE /\ UNCHANGED store
            /\ Commit(p, RetUsage(l, FALSE), "ok", <<>>)

\* ---- initialize_predefined_subcategories ----

StartSeed(p) ==
    Begin(p, SeedFrom([Idle EXCEPT !.op = "seed"], 1, 1))

\* ---- EnhancedSubcategoryProcessor.initialize ----

\* "if self._initialized: return True", else the seeding; the store client
\* is initialised already
StartInitialize(p) ==
    Begin(p, IF initialized
             THEN Done([Idle EXCEPT !.op = "initialize"], Returned(TRUE, 0, FALSE))
             ELSE SeedFrom([Idle EXCEPT !.op = "initialize"], 1, 1))

\* ---- classify_subcategory ----

StartClassify(p) ==
    \E req \in ClassifyRequests :
        Begin(p, [Idle EXCEPT !.op = "classify", !.pc = "cl_list",
                              !.topic = req.topic, !.title = req.title,
                              !.description = req.description, !.thr = req.thr])

\* Step 1: the snapshot of the topic's active names
ClassifyList(p) ==
    LET l == loc[p] IN
    /\ l.pc = "cl_list"
    /\ CanRun(p)
    /\ \E r \in IOResults :
        /\ UNCHANGED <<store, calls>>
        /\ IF r # "ok" /\ ~ExceptException(r) THEN Commit(p, Escape(l, r), r, <<>>)
           ELSE LET subcategories == Listing(l.topic, r)
                IN  Commit(p, [l EXCEPT !.existing = [i \in DOMAIN subcategories |->
                                                        subcategories[i].name],
                                        !.pc = "cl_ai"], r, <<>>)

\* Step 2: the text-generation call answers; then the threshold test
\* classify_subcategory called with a request of ParseRequests
StartParse(p) ==
    \E req \in ParseRequests :
        Begin(p, [Idle EXCEPT !.op = "classify", !.pc = "cl_list",
                              !.topic = req.topic, !.title = req.title,
                              !.description = req.description, !.thr = req.thr])

\* A call of _classify_with_fallback(request): the scan of the table,
\* up to the lookup of the best match
StartFallback(p) ==
    \E req \in FallbackRequests :
        Begin(p, EnterFallback([Idle EXCEPT !.op = "classify", !.topic = req.topic,
                                            !.title = req.title,
                                            !.description = req.description,
                                            !.thr = req.thr]))

ClassifyAIWith(p, answer) ==
    LET l == loc[p]
        got == ClassifiedByAI[<<answer, l.topic>>]
        la == [l EXCEPT !.answer = answer.kind]
    IN  /\ l.pc = "cl_ai"
        /\ CanRun(p)
        /\ UNCHANGED <<store, calls>>
        /\ CASE got.kind = "raise" -> Commit(p, ClassifyRaise(la, got.exc), "ok", <<>>)
              [] got.kind = "result" /\ got.result.conf >= l.thr ->
                    Commit(p, [la EXCEPT !.ai = Some(got.result), !.path = "ai",
                                        !.name = got.result.name,
                                        !.long = got.result.long,
                                        !.pc = "foc_find"], "ok", <<>>)
              [] OTHER -> Commit(p, EnterFallback(la), "ok", <<>>)

ClassifyAI(p) == \E answer \in AIAnswers : ClassifyAIWith(p, answer)

\* The same step with the completions of ParseAnswers
ParseAI(p) == \E answer \in ParseAnswers : ClassifyAIWith(p, answer)

\* _find_or_create_subcategory: "First try to find existing subcategory"
FocFind(p) ==
    LET l == loc[p] IN
    /\ l.pc = "foc_find"
    /\ CanRun(p)
    /\ \E r \in IOResults :
        /\ UNCHANGED <<store, calls>>
        /\ IF r # "ok" /\ ~ExceptException(r) THEN Commit(p, Escape(l, r), r, <<>>)
           ELSE LET subcategory == FindByNameOrAlias(Listing(l.topic, r), l.name)
                IN  IF subcategory # None THEN Commit(p, RetFoc(l, subcategory), r, <<>>)
                    ELSE Commit(p, [l EXCEPT !.pc = "goc_find"], r, <<>>)

\* The positions where a classify_subcategory call is suspended on the
\* database; a cancellation requested during generate_content, which does
\* not yield, is delivered at the next of them
AwaitPositions ==
    {"cl_list", "foc_find", "goc_find", "goc_refind", "cr_query", "cr_set", "us_get", "us_write"}

\* The task running classify_subcategory is cancelled: asyncio raises
\* CancelledError at the await the call is suspended on
Cancel(p) ==
    LET l == loc[p] IN
    /\ useDb
    /\ l.op = "classify"
    /\ l.pc \in AwaitPositions
    /\ CanRun(p)
    /\ UNCHANGED <<store, calls>>
    /\ Commit(p, ClassifyRaise([l EXCEPT !.cancelled = TRUE], "CancelledError"), "ok", <<>>)

\* ------------------------------------------------------------------------
\* search_similar_subcategories (data/database/simple_firestore_client.py)
\* ------------------------------------------------------------------------

\* The if/elif chain of the scoring loop; 0 is the initial score = 0.0
SimilarityScore(subcategory, query_lower) ==
    IF Lower(subcategory.name) = query_lower THEN Score(1, 1)
    ELSE IF IsSubstring(query_lower, Lower(subcategory.name)) THEN Score(8, 10)
    ELSE IF IsSubstring(query_lower, Lower(subcategory.display_name)) THEN Score(6, 10)
    ELSE IF \E i \in DOMAIN subcategory.aliases :
                IsSubstring(query_lower, Lower(subcategory.aliases[i])) THEN Score(7, 10)
    ELSE IF /\ subcategory.description # None
            /\ subcategory.description[1] # <<>>
            /\ IsSubstring(query_lower, Lower(subcategory.description[1])) THEN Score(4, 10)
    ELSE 0

\* A variant of InsertByScore that puts the pair before the pairs of its score
InsertBeforeEqual(sorted, pair) ==
    LET above == {i \in DOMAIN sorted : sorted[i][2] > pair[2]}
    IN  SubSeq(sorted, 1, Cardinality(above)) \o <<pair>>
            \o SubSeq(sorted, Cardinality(above) + 1, Len(sorted))

\* One pair put into a list sorted by descending score, after the pairs
\* of the same score
InsertByScore(sorted, pair) ==
    LET notBelow == {i \in DOMAIN sorted : sorted[i][2] >= pair[2]}
    IN  SubSeq(sorted, 1, Cardinality(notBelow)) \o <<pair>>
            \o SubSeq(sorted, Cardinality(notBelow) + 1, Len(sorted))

\* results.sort(key=lambda x: x[1], reverse=True): list.sort is stable,
\* also in reverse, so pairs of equal score keep their order
RECURSIVE SortByScore(_)
SortByScore(results) ==
    IF results = <<>> THEN <<>>
    ELSE InsertByScore(SortByScore(SubSeq(results, 1, Len(results) - 1)),
                       results[Len(results)])

\* results[:max_results] for max_results >= 0
Take(results, max_results) ==
    SubSeq(results, 1, IF max_results < Len(results) THEN max_results ELSE Len(results))

\* The body of search_similar_subcategories on the listing it read: the
\* (subcategory, score) pairs of positive score, sorted and cut
SearchResults(subcategories, query_text, max_results) ==
    LET query_lower == Lower(query_text)
        scored == [i \in DOMAIN subcategories |->
                      <<subcategories[i], SimilarityScore(subcategories[i], query_lower)>>]
        results == SelectSeq(scored, LAMBDA x : x[2] > 0)
    IN  Take(SortByScore(results), max_results)

SearchTopics == {"safety", "traffic"}

SearchQueries ==
    {<<"F","I","R","E">>,
     <<"f","i","r","e"," ">>,
     <<"F","i","r","e"," ","A","l","a","r","m">>,
     <<"u","a","s">>,
     <<"d","r","o","n","e">>,
     <<"z","z","z">>,
     <<>>}

\* 5 is what suggest_subcategories passes and the default
SearchLimits == {1, 3, 5}

StartSearch(p) ==
    \E t \in SearchTopics, q \in SearchQueries, n \in SearchLimits :
        Begin(p, [Idle EXCEPT !.op = "search", !.pc = "search_list", !.topic = t,
                              !.query_text = q, !.max_results = n])

\* get_subcategories_by_topic(topic, ACTIVE), which gives [] when the
\* store fails, then the scoring, the sort and the cut; an exception the
\* store raises past it is caught and gives []
SearchList(p) ==
    LET l == loc[p] IN
    /\ l.pc = "search_list"
    /\ CanRun(p)
    /\ \E r \in IOResults :
        /\ UNCHANGED <<store, calls>>
        /\ IF r # "ok" /\ ~ExceptException(r) THEN Commit(p, Escape(l, r), r, <<>>)
           ELSE LET subcategories == Listing(l.topic, r)
                IN  Commit(p, Done([l EXCEPT !.subcategories = subcategories,
                                             !.results = SearchResults(subcategories,
                                                                       l.query_text,
                                                                       l.max_results)],
                                   Returned(TRUE, 0, FALSE)), r, <<>>)

\* ------------------------------------------------------------------------
\* get_subcategory_performance_report
\* (data/processors/enhanced_subcategory_processor.py)
\* ------------------------------------------------------------------------

\* "for topic in EventTopic": the members in definition order
EventTopicOrder == <<"traffic", "infrastructure", "weather", "events", "safety">>

\* sc.metadata.avg_confidence and sc.metadata.avg_confidence < 0.5: the
\* average is kept as <<sum, count>>; None and 0.0 are false as a condition
LowConfidence(m) ==
    /\ m.avg_confidence # None
    /\ m.avg_confidence[1][1] # 0
    /\ 2 * m.avg_confidence[1][1] < ScoreScale * m.avg_confidence[1][2]

\* sc.metadata.user_rejections > sc.metadata.user_confirmations and
\* sc.metadata.user_rejections > 0
HighRejection(m) ==
    m.user_rejections > m.user_confirmations /\ m.user_rejections > 0

\* The "needs_review" list of the report
NeedsReview(all_subcategories) ==
    LET picked == SelectSeq(all_subcategories,
                            LAMBDA sc : LowConfidence(sc.metadata) \/ HighRejection(sc.metadata))
    IN  [i \in DOMAIN picked |->
            [name  |-> picked[i].name,
             topic |-> picked[i].topic,
             reason |-> IF LowConfidence(picked[i].metadata)
                        THEN "Low confidence" ELSE "High rejection rate"]]

StartReport(p) ==
    Begin(p, [Idle EXCEPT !.op = "report", !.pc = "report_list", !.ti = 1])

\* One turn of the loop over the topics: get_subcategories_by_topic(topic)
\* of every status, [] when the store fails; after the last topic the
\* report is built from the entries collected
ReportList(p) ==
    LET l == loc[p] IN
    /\ l.pc = "report_list"
    /\ CanRun(p)
    /\ \E r \in IOResults :
        /\ UNCHANGED <<store, calls>>
        /\ IF r # "ok" /\ ~ExceptException(r) THEN Commit(p, Escape(l, r), r, <<>>)
           ELSE LET topic_subcategories ==
                        IF r = "ok" THEN ByTopic(store, EventTopicOrder[l.ti], None) ELSE <<>>
                    all_subcategories == l.subcategories \o topic_subcategories
                IN  IF l.ti < Len(EventTopicOrder)
                    THEN Commit(p, [l EXCEPT !.subcategories = all_subcategories,
                                             !.ti = l.ti + 1], r, <<>>)
                    ELSE Commit(p, Done([l EXCEPT !.subcategories = all_subcategories,
                                                  !.needs_review =
                                                      NeedsReview(all_subcategories)],
                                        Returned(TRUE, 0, FALSE)), r, <<>>)

\* ------------------------------------------------------------------------
\* _clean_subcategory_name on its own
\* (data/processors/subcategory_classifier.py)
\* ------------------------------------------------------------------------

\* The longest name drawn from CleanAlphabet
CleanMaxLen == 3

\* An upper-case and a lower-case letter, a digit, the two characters the
\* pattern keeps, a blank and a character it replaces
CleanAlphabet == {"A", "b", "1", "_", "-", " ", "!"}

RoadConstruction == <<"R","o","a","d"," "," ","C","o","n","s","t","r","u","c","t","i","o","n","!">>

\* The names the function is applied to: every string over CleanAlphabet
\* of up to CleanMaxLen characters (the empty one included), and an AI
\* suggestion with a double blank and a trailing "!"
CleanNames ==
    UNION {[1..k -> CleanAlphabet] : k \in 0..CleanMaxLen} \cup {RoadConstruction}

StartClean(p) ==
    \E name \in CleanNames :
        Begin(p, [Idle EXCEPT !.op = "clean", !.pc = "clean", !.name = name])

\* The call _clean_subcategory_name(name)
Clean(p) ==
    LET l == loc[p] IN
    /\ l.pc = "clean"
    /\ CanRun(p)
    /\ UNCHANGED <<store, calls>>
    /\ Commit(p, [l EXCEPT !.pc = "done", !.cleaned = _clean_subcategory_name(l.name),
                           !.ret = Returned(TRUE, 0, FALSE)], "ok", <<>>)

\* ------------------------------------------------------------------------
\* _find_subcategory_by_name_or_alias on its own
\* (data/database/simple_firestore_client.py)
\* ------------------------------------------------------------------------

FindTopics == {"safety"}

FindNames == {<<"D","r","o","n","e"," ">>, <<"f","i","r","e">>, <<"z","z","z">>}

StartFind(p) ==
    \E t \in FindTopics, n \in FindNames :
        Begin(p, [Idle EXCEPT !.op = "find", !.pc = "find_list", !.topic = t, !.name = n])

\* get_subcategories_by_topic(topic, ACTIVE), [] when the store fails,
\* then the loop over the listing
FindList(p) ==
    LET l == loc[p] IN
    /\ l.pc = "find_list"
    /\ CanRun(p)
    /\ \E r \in IOResults :
        /\ UNCHANGED <<store, calls>>
        /\ IF r # "ok" /\ ~ExceptException(r) THEN Commit(p, Escape(l, r), r, <<>>)
           ELSE LET subcategories == Listing(l.topic, r)
                IN  Commit(p, Done([l EXCEPT !.subcategories = subcategories,
                                             !.resolved =
                                                 FindByNameOrAlias(subcategories, l.name)],
                                   Returned(TRUE, 0, FALSE)), r, <<>>)

\* ------------------------------------------------------------------------
\* Specifications
\* ------------------------------------------------------------------------

\* A store that holds two seeded entries, never used yet: traffic/accident
\* (topic 1, row 1) and safety/fire (topic 5, row 1)
SeededStore ==
    <<Predefined(1, 1, 1), Predefined(2, 5, 1)>>

\* The state after construction and initialize(): the store attached
\* (a database or the mock dictionary) holding docs
InitWith(docs) ==
    /\ useDb \in BOOLEAN
    /\ store = docs
    /\ nextId = Len(docs) + 1
    /\ cur = 0
    /\ loc = [p \in Procs |-> Idle]
    /\ calls = 0
    /\ faults = 0
    /\ down = FALSE
    /\ log = <<>>
    /\ initialized = FALSE

Init == \E docs \in {<<>>, SeededStore} : InitWith(docs)

GetOrCreateSteps(p) ==
    \/ GocFind(p)
    \/ GocRefind(p)

CreateSteps(p) ==
    \/ CreateQuery(p)
    \/ CreateSet(p)
    \/ CreateMock(p)

UsageSteps(p) ==
    \/ UsageGet(p)
    \/ UsageWrite(p)
    \/ UsageMock(p)

ClassifySteps(p) ==
    \/ ClassifyList(p)
    \/ ClassifyAI(p)
    \/ FocFind(p)

Next ==
    \E p \in Procs :
        \/ StartGetOrCreate(p)
        \/ StartGetOrCreateStored(p)
        \/ StartCreate(p)
        \/ StartUsage(p)
        \/ StartUsageAny(p)
        \/ StartValidate(p)
        \/ StartSeed(p)
        \/ StartInitialize(p)
        \/ StartClassify(p)
        \/ GetOrCreateSteps(p)
        \/ CreateSteps(p)
        \/ UsageSteps(p)
        \/ ClassifySteps(p)
        \/ Cancel(p)
        \/ StartSearch(p)
        \/ SearchList(p)
        \/ StartReport(p)
        \/ ReportList(p)
        \/ StartClean(p)
        \/ Clean(p)
        \/ StartFallback(p)
        \/ StartParse(p)
        \/ ParseAI(p)
        \/ StartFind(p)
        \/ FindList(p)

Spec == Init /\ [][Next]_vars

\* Only get_or_create_subcategory calls, on a store that starts empty
InitGoc == InitWith(<<>>)

NextGoc ==
    \E p \in Procs :
        \/ StartGetOrCreate(p)
        \/ GetOrCreateSteps(p)
        \/ CreateSteps(p)

SpecGoc == InitGoc /\ [][NextGoc]_vars

\* Only update_subcategory_usage calls, on the seeded store
InitUsage == InitWith(SeededStore)

NextUsage ==
    \E p \in Procs :
        \/ StartUsage(p)
        \/ UsageSteps(p)

SpecUsage == InitUsage /\ [][NextUsage]_vars

\* update_subcategory_usage calls with known and unknown ids
NextUsageAny ==
    \E p \in Procs :
        \/ StartUsageAny(p)
        \/ UsageSteps(p)

SpecUsageAny == InitUsage /\ [][NextUsageAny]_vars

\* initialize_predefined_subcategories run by the start-up task (caller 1),
\* one run after the other, on a store that starts empty
InitSeed == InitWith(<<>>)

NextSeed ==
    \/ StartSeed(Min(Procs))
    \/ CreateSteps(Min(Procs))

SpecSeed == InitSeed /\ [][NextSeed]_vars

\* The table positions, in the order of the seeding loop
SeedRows(ti) == [ri \in 1..Len(FALLBACK_SUBCATEGORIES[TopicOrder[ti]]) |-> <<ti, ri>>]

AllSeedRows == SeedRows(1) \o SeedRows(2) \o SeedRows(3) \o SeedRows(4) \o SeedRows(5)

\* The store an earlier run of the seeding has left
FullySeededStore ==
    [k \in DOMAIN AllSeedRows |-> Predefined(k, AllSeedRows[k][1], AllSeedRows[k][2])]

\* The store of an earlier run of the seeding that ended before the last
\* row of the table
NearlySeededStore == SubSeq(FullySeededStore, 1, Len(FullySeededStore) - 1)

\* initialize calls of one EnhancedSubcategoryProcessor: on the database
\* an earlier process has seeded up to the last row, which fails no
\* request, or on the mock store, which is empty when the process starts
InitInitialize ==
    /\ useDb \in BOOLEAN
    /\ store = IF useDb THEN NearlySeededStore ELSE <<>>
    /\ nextId = Len(store) + 1
    /\ cur = 0
    /\ loc = [p \in Procs |-> Idle]
    /\ calls = 0
    /\ faults = MaxFaults
    /\ down = FALSE
    /\ log = <<>>
    /\ initialized = FALSE

NextInitialize ==
    \E p \in Procs :
        \/ StartInitialize(p)
        \/ CreateSteps(p)

SpecInitialize == InitInitialize /\ [][NextInitialize]_vars

\* Only create_subcategory calls, on the seeded store
InitCreate == InitWith(SeededStore)

NextCreate ==
    \E p \in Procs :
        \/ StartCreate(p)
        \/ CreateSteps(p)

SpecCreate == InitCreate /\ [][NextCreate]_vars

\* classify_subcategory and validate_subcategory_choice calls, on the
\* seeded store
InitClassify == InitWith(SeededStore)

\* The steps of a classify_subcategory call that are the program's own
ProgramSteps(p) ==
    \/ ClassifyList(p)
    \/ FocFind(p)
    \/ GetOrCreateSteps(p)
    \/ CreateSteps(p)
    \/ UsageSteps(p)

NextClassify ==
    \E p \in Procs :
        \/ StartClassify(p)
        \/ StartValidate(p)
        \/ ClassifyAI(p)
        \/ ProgramSteps(p)

SpecClassify == InitClassify /\ [][NextClassify]_vars

\* The same, where every call keeps running: the event loop resumes each
\* coroutine whose store call has answered.  Nothing makes the
\* text-generation call answer: generate_content is called with no deadline.
SpecClassifyFair ==
    /\ InitClassify
    /\ [][NextClassify]_vars
    /\ \A p \in Procs : WF_vars(ProgramSteps(p))

\* Only validate_subcategory_choice calls, on the seeded store
InitValidate == InitWith(SeededStore)

NextValidate ==
    \E p \in Procs :
        \/ StartValidate(p)
        \/ UsageSteps(p)

SpecValidate == InitValidate /\ [][NextValidate]_vars

\* classify_subcategory calls while the database is unreachable.  No call
\* gets as far as update_subcategory_usage then.
InitDown ==
    /\ useDb = TRUE
    /\ store = SeededStore
    /\ nextId = Len(SeededStore) + 1
    /\ cur = 0
    /\ loc = [p \in Procs |-> Idle]
    /\ calls = 0
    /\ faults = 0
    /\ down = TRUE
    /\ log = <<>>
    /\ initialized = FALSE

NextDown ==
    \E p \in Procs :
        \/ StartClassify(p)
        \/ ClassifyList(p)
        \/ ClassifyAI(p)
        \/ FocFind(p)
        \/ GetOrCreateSteps(p)
        \/ CreateQuery(p)
        \/ CreateSet(p)

SpecDown == InitDown /\ [][NextDown]_vars

\* classify_subcategory calls that may be cancelled, on the seeded store
NextCancel ==
    \E p \in Procs :
        \/ StartClassify(p)
        \/ ClassifyAI(p)
        \/ ProgramSteps(p)
        \/ Cancel(p)

SpecCancel == InitClassify /\ [][NextCancel]_vars

\* A store for the search: the seeded safety/fire, then safety entries
\* that match "fire" through the name, through the description only,
\* through an alias only and through the name again, a deprecated entry
\* and a traffic entry
SearchStore ==
    <<Predefined(1, 5, 1),
      Subcategory(2, <<"f","i","r","e","_","a","l","a","r","m">>, "safety", <<"F","i","r","e"," ","A","l","a","r","m">>, None, "admin_added"),
      Subcategory(3, <<"s","m","o","k","e">>, "safety", <<"S","m","o","k","e">>, Some(<<"S","m","o","k","e"," ","f","r","o","m"," ","a"," ","f","i","r","e">>), "admin_added"),
      [Subcategory(4, <<"u","a","s">>, "safety", <<"U","a","s">>, None, "admin_added")
          EXCEPT !.aliases = << <<"F","i","r","e","_","D","r","o","n","e">> >>],
      Subcategory(5, <<"w","i","l","d","f","i","r","e">>, "safety", <<"W","i","l","d","f","i","r","e">>, Some(<<>>), "admin_added"),
      [Subcategory(6, <<"f","i","r","e","w","a","l","l">>, "safety", <<"F","i","r","e","w","a","l","l">>, None, "admin_added")
          EXCEPT !.status = "deprecated"],
      Predefined(7, 1, 1)>>

InitSearch == InitWith(SearchStore)

NextSearch ==
    \E p \in Procs :
        \/ StartSearch(p)
        \/ SearchList(p)

SpecSearch == InitSearch /\ [][NextSearch]_vars

\* The entry after update_subcategory_usage wrote it back
Updated(sc, confidence_score, user_confirmed, user_rejected) ==
    [sc EXCEPT !.metadata = UpdateMetadata(@, confidence_score, user_confirmed, user_rejected)]

\* A store for the report: safety/fire used once with score 0.0, the
\* seeded traffic/accident never used, an entry used once with 0.2, one
\* used with 0.9 and then rejected, one confirmed once and rejected once,
\* and a deprecated one used once with 0.2
ReportStore ==
    <<Updated(Predefined(1, 5, 1), Some(0), FALSE, FALSE),
      Predefined(2, 1, 1),
      Updated(Predefined(3, 1, 2), Some(Score(2, 10)), FALSE, FALSE),
      Updated(Updated(Predefined(4, 5, 2), Some(Score(9, 10)), FALSE, FALSE),
              None, FALSE, TRUE),
      Updated(Updated(Predefined(5, 5, 3), None, TRUE, FALSE), None, FALSE, TRUE),
      [Updated(Predefined(6, 3, 1), Some(Score(2, 10)), FALSE, FALSE)
          EXCEPT !.status = "deprecated"]>>

InitReport == InitWith(ReportStore)

\* Reports while user feedback is recorded
NextReport ==
    \E p \in Procs :
        \/ StartReport(p)
        \/ ReportList(p)
        \/ StartValidate(p)
        \/ UsageSteps(p)

SpecReport == InitReport /\ [][NextReport]_vars

InitClean == InitWith(<<>>)

\* _clean_subcategory_name applied to one name after another
NextClean ==
    \/ StartClean(Min(Procs))
    \/ Clean(Min(Procs))

SpecClean == InitClean /\ [][NextClean]_vars

\* _classify_with_fallback calls on the seeded store
NextFallback ==
    \E p \in Procs :
        \/ StartFallback(p)
        \/ FocFind(p)
        \/ GetOrCreateSteps(p)
        \/ CreateSteps(p)
        \/ UsageSteps(p)

SpecFallback == InitClassify /\ [][NextFallback]_vars

\* A store whose first safety entry "uas" has the alias "Drone", beside
\* the seeded safety/fire
FindStore ==
    <<[Subcategory(1, <<"u","a","s">>, "safety", <<"U","a","s">>, None, "admin_added")
          EXCEPT !.aliases = << <<"D","r","o","n","e">> >>],
      Predefined(2, 5, 1)>>

InitFind == InitWith(FindStore)

\* get_or_create_subcategory calls of one caller, one after the other, on
\* the store with the alias: nothing overlaps, store requests may fail
NextGocAlone ==
    \/ StartGetOrCreateStored(Min(Procs))
    \/ GetOrCreateSteps(Min(Procs))
    \/ CreateSteps(Min(Procs))

SpecGocAlone == InitFind /\ [][NextGocAlone]_vars

\* Lookups by name or alias while create_subcategory adds entries
NextFind ==
    \E p \in Procs :
        \/ StartFind(p)
        \/ FindList(p)
        \/ StartCreate(p)
        \/ CreateSteps(p)

SpecFind == InitFind /\ [][NextFind]_vars

\* The entry after n update_subcategory_usage calls with this score
RECURSIVE UsedTimes(_, _, _)
UsedTimes(sc, n, score) ==
    IF n = 0 THEN sc ELSE Updated(UsedTimes(sc, n - 1, score), Some(score), FALSE, FALSE)

\* A store whose traffic/accident has been used RecentWindow times with
\* score 0.9, beside the unused safety/fire
WindowStore ==
    <<UsedTimes(Predefined(1, 1, 1), RecentWindow, Score(9, 10)), Predefined(2, 5, 1)>>

InitWindow == InitWith(WindowStore)

\* update_subcategory_usage calls on the store with the full window
SpecWindow == InitWindow /\ [][NextUsage]_vars

\* A store whose traffic entry "uas" has the alias "Drone_Sighting"
AliasStore ==
    <<[Subcategory(1, <<"u","a","s">>, "traffic", <<"U","a","s">>, None, "admin_added")
          EXCEPT !.aliases = << <<"D","r","o","n","e","_","S","i","g","h","t","i","n","g">> >>],
      Predefined(2, 5, 1)>>

\* classify_subcategory calls on the store with the alias
InitAlias == InitWith(AliasStore)

NextAlias ==
    \E p \in Procs :
        \/ StartClassify(p)
        \/ ClassifyAI(p)
        \/ ProgramSteps(p)

SpecAlias == InitAlias /\ [][NextAlias]_vars

\* classify_subcategory calls that accept every parsed answer, on the
\* store with the entry "uas"
NextParse ==
    \E p \in Procs :
        \/ StartParse(p)
        \/ ParseAI(p)
        \/ ProgramSteps(p)

SpecParse == InitAlias /\ [][NextParse]_vars

\* ------------------------------------------------------------------------
\* Claims
\* ------------------------------------------------------------------------

\* Every caller is between calls
Quiescent == \A p \in Procs : loc[p].pc \in {"idle", "done"}

\* The history records of one kind
Events(ev) == SelectSeq(log, LAMBDA x : x.ev = ev)

\* No two active entries of the store share (topic, name)
UniqueActive ==
    \A i, j \in DOMAIN store :
        (/\ i # j
         /\ store[i].status = "active"
         /\ store[j].status = "active"
         /\ store[i].topic = store[j].topic)
        => store[i].name # store[j].name

\* C1: whatever way get_or_create_subcategory calls overlap, and with no
\* store access failing, the store never holds two active entries with the
\* same topic and name.
C1_UniqueUnderGetOrCreate == faults = 0 => UniqueActive

\* C2: all get_or_create_subcategory calls for one (topic, name) that was
\* not in the store before return the same id, and the entry returned is
\* in the store (no store access failing).
C2_SameStoredEntry ==
    faults = 0 =>
        \A i, j \in DOMAIN Events("goc") :
            LET a == Events("goc")[i]
                b == Events("goc")[j]
            IN  /\ GetById(store, a.id) # None
                /\ (a.topic = b.topic /\ a.name = b.name) => a.id = b.id

\* The number of update_subcategory_usage calls on id that returned True
UpdatesReturnedTrue(id) == Len(SelectSeq(Events("usage_ok"), LAMBDA x : x.id = id))

\* C3: once the update_subcategory_usage calls have returned, the
\* usage_count of every entry (0 at first) is the number of calls on it
\* that returned True.
C3_NoLostUpdate ==
    Quiescent =>
        \A i \in DOMAIN store :
            store[i].metadata.usage_count = UpdatesReturnedTrue(store[i].id)

\* The finished classify_subcategory calls
ClassifyDone(p) == loc[p].op = "classify" /\ loc[p].pc = "done"

\* C4: a classify_subcategory call that has ended has returned a
\* ClassificationResult (one its constructor accepts) and raised nothing,
\* whatever the text-generation call did and whichever store accesses failed.
C4_ClassifyAlwaysReturns ==
    \A p \in Procs :
        ClassifyDone(p) =>
            /\ loc[p].ret.kind = "value"
            /\ loc[p].ret.result # None
            /\ ConfidenceValid(loc[p].ret.result[1].confidence_score)

\* A call has returned a result although the text-generation call raised
\* and a store access failed
C4_ReturnedAfterFailures ==
    \E p \in Procs :
        /\ ClassifyDone(p)
        /\ loc[p].ret.kind = "value"
        /\ loc[p].answer = "raise"
        /\ faults > 0

\* C5: every classify_subcategory call that has started ends, also when
\* the text-generation call answers late or never.
C5_ClassifyEventuallyReturns ==
    \A p \in Procs :
        (loc[p].op = "classify" /\ loc[p].pc # "done") ~> ClassifyDone(p)

\* The (topic, name) pairs of FALLBACK_SUBCATEGORIES
PredefinedNames ==
    {<<t, FALLBACK_SUBCATEGORIES[t][i].name>> :
        t \in EventTopic, i \in 1..Len(FALLBACK_SUBCATEGORIES[TopicOrder[1]])}

\* C6: once initialize_predefined_subcategories has run, the store holds
\* one entry per predefined (topic, name) and a further run adds none (no
\* store access failing).
C6_SeedTwiceSameAsOnce ==
    (faults = 0 /\ Len(Events("seeded")) >= 1) =>
        /\ {<<store[i].topic, store[i].name>> : i \in DOMAIN store} = PredefinedNames
        /\ Len(store) = Cardinality(PredefinedNames)

\* The scores supplied to the entry id by the update_subcategory_usage
\* calls that returned True, in the order of their writes
SuppliedScores(id) ==
    LET withScore == SelectSeq(Events("usage_ok"), LAMBDA x : x.id = id /\ x.conf # None)
    IN  [i \in DOMAIN withScore |-> withScore[i].conf[1]]

\* C7: once the update_subcategory_usage calls have returned, an entry's
\* avg_confidence is absent if no score was supplied to it, and otherwise
\* is the mean of the last min(n, 10) of the n scores supplied.
C7_AvgIsMeanOfRecent ==
    Quiescent =>
        \A i \in DOMAIN store :
            LET recent == LastScores(SuppliedScores(store[i].id))
                avg == store[i].metadata.avg_confidence
            IN  IF recent = <<>> THEN avg = None
                ELSE /\ avg # None
                     /\ avg[1][1] * Len(recent) = SumSeq(recent) * avg[1][2]

\* An active entry of docs has this topic and name
ActiveWithName(docs, topic, name) ==
    \E i \in DOMAIN docs :
        docs[i].status = "active" /\ docs[i].topic = topic /\ docs[i].name = name

\* C8: the step that ends a create_subcategory call returns False and
\* leaves the store as it is when an active entry has the (topic, name) of
\* the subcategory passed; otherwise (no store access failing) it returns
\* True and the subcategory is in the store.
C8_CreateRefusesExisting ==
    [][\A p \in Procs :
          (loc[p].op = "create" /\ loc[p].pc # "done" /\ loc'[p].pc = "done") =>
              LET sc == loc[p].sub[1]
                  r == loc'[p].ret
              IN  IF ActiveWithName(store, sc.topic, sc.name)
                  THEN r.kind = "value" /\ ~r.ok /\ store' = store
                  ELSE faults' = 0 =>
                          /\ r.kind = "value" /\ r.ok
                          /\ GetById(store', sc.id) = Some(sc)]_vars

\* C9: the result of a classify_subcategory call that returned on the AI
\* path has is_new_subcategory true exactly when get_or_create_subcategory
\* created the entry in that call, and new_subcategory_id set exactly then.
C9_IsNewIffCreated ==
    \A p \in Procs :
        (ClassifyDone(p) /\ loc[p].path = "ai" /\ loc[p].ret.result # None) =>
            /\ loc[p].ret.result[1].is_new_subcategory <=> loc[p].created
            /\ (loc[p].ret.result[1].new_subcategory_id # None) <=> loc[p].created

\* The number of classify_subcategory calls that returned a result
\* resolved to the entry id
ClassifiedTo(id) == Len(SelectSeq(Events("classified"), LAMBDA x : x.id = id))

\* C10: once the classify_subcategory and validate_subcategory_choice
\* calls have returned, the usage_count of every entry (0 at first) is the
\* number of classifications that resolved to it.
C10_UsageCountsClassifications ==
    Quiescent =>
        \A i \in DOMAIN store :
            store[i].metadata.usage_count = ClassifiedTo(store[i].id)

\* The number of validate_subcategory_choice calls on id with this
\* user_confirmed that returned True
Validations(id, user_confirmed) ==
    Len(SelectSeq(Events("validated"), LAMBDA x : x.id = id /\ x.confirmed = user_confirmed))

\* C11: once the validate_subcategory_choice calls have returned, every
\* entry's user_confirmations is the number of calls on it with
\* confirmed=true and its user_rejections the number with confirmed=false
\* (0 of each at first; counting the calls that returned True).
C11_FeedbackCounted ==
    Quiescent =>
        \A i \in DOMAIN store :
            /\ store[i].metadata.user_confirmations = Validations(store[i].id, TRUE)
            /\ store[i].metadata.user_rejections = Validations(store[i].id, FALSE)

\* The positions of update_subcategory_usage and of the mock store
UsagePositions == {"us_get", "us_write", "us_mock", "cr_mock"}

\* C12: with the database unreachable, the step that ends a
\* classify_subcategory call returns (raising nothing) the name and score
\* of the rule-based match of the request's text, whatever the
\* text-generation call answered; no step changes the store and no call
\* reaches update_subcategory_usage.
C12_DegradedUsesFallback ==
    [][down =>
        /\ store' = store
        /\ \A p \in Procs :
              /\ loc'[p].pc \notin UsagePositions
              /\ (loc[p].op = "classify" /\ loc[p].pc # "done" /\ loc'[p].pc = "done") =>
                    LET b == BestMatchOf[<<loc[p].topic, TitleDesc(loc[p])>>]
                        r == loc'[p].ret
                    IN  /\ r.kind = "value"
                        /\ r.result # None
                        /\ r.result[1].subcategory_name = b.best_match
                        /\ r.result[1].confidence_score = b.best_score]_vars

\* With the database unreachable a call has returned the rule-based
\* result although the text-generation call gave a JSON answer
C12_FallbackDespiteAnswer ==
    \E p \in Procs :
        /\ down
        /\ ClassifyDone(p)
        /\ loc[p].answer = "json"
        /\ loc[p].path = "fallback"
        /\ loc[p].ret.kind = "value"
        /\ loc[p].ret.result[1].reasoning = "fallback"

\* C13: a classify_subcategory call that was cancelled while suspended has
\* given its caller the last-resort result: name "general", confidence
\* 0.1, is_new_subcategory false.
C13_CancelledGetsLastResort ==
    \A p \in Procs :
        (ClassifyDone(p) /\ loc[p].cancelled) =>
            /\ loc[p].ret.kind = "value"
            /\ loc[p].ret.result = Some(LastResort)

\* The answers of the text-generation call that are no structured object:
\* it raised, gave nothing, gave text that is not JSON or wrong-typed JSON
UnusableAnswers == {"raise", "empty", "text", "badtype"}

\* C14: a classify_subcategory call whose text-generation call was
\* unavailable or gave a completion that cannot be parsed has produced its
\* result through the rule-based fallback, whatever the request's
\* threshold; no result of the text scan after a parse failure has gone
\* through the AI path.
C14_FailuresUseFallback ==
    \A p \in Procs :
        (ClassifyDone(p) /\ loc[p].ret.kind = "value") =>
            /\ loc[p].answer \in UnusableAnswers => loc[p].path = "fallback"
            /\ loc[p].path = "ai" => loc[p].ai[1].reasoning # "parsed_from_text"

\* The active entries of docs in the topic that have name as an alias
\* (compared in lower case)
AliasOwners(docs, topic, name) ==
    {i \in DOMAIN docs :
        /\ docs[i].status = "active"
        /\ docs[i].topic = topic
        /\ \E k \in DOMAIN docs[i].aliases : Lower(docs[i].aliases[k]) = name}

Unavailable(p) == loc[p].answer \in {"raise", "empty"}

\* Two callers hold the results of calls with the same request
SameRequest(p, q) ==
    /\ ClassifyDone(p) /\ ClassifyDone(q)
    /\ loc[p].topic = loc[q].topic
    /\ loc[p].title = loc[q].title
    /\ loc[p].description = loc[q].description

\* C16: two classify_subcategory calls with the same topic, title and
\* description whose text-generation call was unavailable have returned
\* the same subcategory_name and the same confidence_score, whatever the
\* store held and whichever calls ran or failed in between.
C16_FallbackDeterministic ==
    \A p, q \in Procs :
        (SameRequest(p, q) /\ Unavailable(p) /\ Unavailable(q)) =>
            /\ loc[p].ret.kind = "value" /\ loc[q].ret.kind = "value"
            /\ loc[p].ret.result[1].subcategory_name = loc[q].ret.result[1].subcategory_name
            /\ loc[p].ret.result[1].confidence_score = loc[q].ret.result[1].confidence_score

\* Two such calls have returned, one of which found the store as the other
\* had left it (it created the entry the other then reused) or failing
C16_TwoCallsDifferentStore ==
    \E p, q \in Procs :
        /\ p # q
        /\ SameRequest(p, q) /\ Unavailable(p) /\ Unavailable(q)
        /\ loc[p].ret.kind = "value" /\ loc[q].ret.kind = "value"
        /\ loc[p].resolved # loc[q].resolved

\* A search call that has returned
SearchDone(p) == loc[p].op = "search" /\ loc[p].pc = "done"

\* The score the rules give an entry for a query, the first that applies:
\* equal to the name ignoring case, the query trimmed; then a substring
\* of the name, of the display name, of an alias, of a present
\* description; 0 when none applies
RuleScore(sc, query) ==
    LET q == Lower(query) IN
    IF Lower(sc.name) = Strip(q) THEN Score(1, 1)
    ELSE IF IsSubstring(q, Lower(sc.name)) THEN Score(8, 10)
    ELSE IF IsSubstring(q, Lower(sc.display_name)) THEN Score(6, 10)
    ELSE IF \E i \in DOMAIN sc.aliases : IsSubstring(q, Lower(sc.aliases[i])) THEN Score(7, 10)
    ELSE IF sc.description # None /\ IsSubstring(q, Lower(sc.description[1])) THEN Score(4, 10)
    ELSE 0

\* C17: every pair a search returns carries the score of the first rule
\* that applies to its entry (1.0 name equals the trimmed query ignoring
\* case, 0.8 substring of the name, 0.6 of the display name, 0.7 of an
\* alias, 0.4 of a present description), an entry no rule applies to is
\* not returned, and below the result limit every entry a rule applies to
\* is returned.
C17_ScoreIsFirstRule ==
    \A p \in Procs :
        SearchDone(p) =>
            LET l == loc[p]
                returned == {l.results[i][1] : i \in DOMAIN l.results}
            IN  /\ \A i \in DOMAIN l.results :
                       l.results[i][2] = RuleScore(l.results[i][1], l.query_text)
                /\ \A j \in DOMAIN l.subcategories :
                       /\ RuleScore(l.subcategories[j], l.query_text) = 0
                              => l.subcategories[j] \notin returned
                       /\ (RuleScore(l.subcategories[j], l.query_text) > 0
                              /\ Len(l.results) < l.max_results)
                              => l.subcategories[j] \in returned

\* The position of an entry in the listing a search read
ListedAt(l, sc) == CHOOSE j \in DOMAIN l.subcategories : l.subcategories[j] = sc

\* The listed entries the search gave a positive score
Matching(l) ==
    {j \in DOMAIN l.subcategories :
        SimilarityScore(l.subcategories[j], Lower(l.query_text)) > 0}

\* C18: the pairs a search returns are listed entries in non-increasing
\* score order, pairs of equal score in the order of the listing, at most
\* max_results of them and no fewer while entries of positive score are
\* left, none scoring below an entry left out, none with score 0; and the
\* step of the search leaves the store as it was.
C18_RankedCappedReadOnly ==
    /\ [](\A p \in Procs :
            SearchDone(p) =>
                LET l == loc[p]
                    res == l.results
                    returned == {res[i][1] : i \in DOMAIN res}
                IN  /\ returned \subseteq Range(l.subcategories)
                    /\ \A i, j \in DOMAIN res :
                           i < j => /\ res[i][2] >= res[j][2]
                                    /\ res[i][2] = res[j][2]
                                           => ListedAt(l, res[i][1]) < ListedAt(l, res[j][1])
                    /\ Len(res) <= l.max_results
                    /\ Len(res) < l.max_results => Len(res) = Cardinality(Matching(l))
                    /\ \A i \in DOMAIN res, j \in DOMAIN l.subcategories :
                           l.subcategories[j] \notin returned =>
                               res[i][2] >= SimilarityScore(l.subcategories[j],
                                                            Lower(l.query_text))
                    /\ \A i \in DOMAIN res : res[i][2] > 0)
    /\ [][\A p \in Procs :
            (loc[p].op = "search" /\ loc[p].pc = "search_list" /\ loc'[p].pc = "done")
                => store' = store]_vars

\* A search has returned max_results pairs out of more entries of
\* positive score, two of the pairs with the same score, and another has
\* returned an entry ahead of one listed before it
C18_CutWithTie ==
    /\ \E p \in Procs :
        /\ SearchDone(p)
        /\ Len(loc[p].results) = loc[p].max_results
        /\ Cardinality(Matching(loc[p])) > loc[p].max_results
        /\ \E i, j \in DOMAIN loc[p].results :
               i < j /\ loc[p].results[i][2] = loc[p].results[j][2]
    /\ \E p \in Procs :
        /\ SearchDone(p)
        /\ \E i, j \in DOMAIN loc[p].results :
               /\ i < j
               /\ ListedAt(loc[p], loc[p].results[i][1]) > ListedAt(loc[p], loc[p].results[j][1])

\* A report call that has returned
ReportDone(p) == loc[p].op = "report" /\ loc[p].pc = "done"

\* The entry is due for review: its average confidence is present and in
\* [0, 0.5), or it has more rejections than confirmations
DueForReview(m) ==
    \/ m.avg_confidence # None /\ 2 * m.avg_confidence[1][1] < ScoreScale * m.avg_confidence[1][2]
    \/ m.user_rejections > m.user_confirmations /\ m.user_rejections > 0

\* C19: the needs_review list of a report holds exactly the entries it
\* read whose avg_confidence is present and in [0, 0.5), or whose
\* user_rejections exceed their user_confirmations with at least one
\* rejection.
C19_NeedsReviewExact ==
    \A p \in Procs :
        ReportDone(p) =>
            LET l == loc[p]
                listed == {<<l.needs_review[i].topic, l.needs_review[i].name>> :
                              i \in DOMAIN l.needs_review}
            IN  /\ \A j \in DOMAIN l.subcategories :
                       <<l.subcategories[j].topic, l.subcategories[j].name>> \in listed
                           <=> DueForReview(l.subcategories[j].metadata)
                /\ listed \subseteq {<<l.subcategories[j].topic, l.subcategories[j].name>> :
                                        j \in DOMAIN l.subcategories}

\* A _clean_subcategory_name call that has returned
CleanDone(p) == loc[p].op = "clean" /\ loc[p].pc = "done"

\* The characters a cleaned name keeps
KeptChars == Range(LowerChars) \cup Range(DigitChars) \cup {"_", "-"}

\* The name in lower case with every character other than a letter, a
\* digit, "_" and "-" replaced by "_"
Replaced(name) ==
    LET low == Lower(name)
    IN  [i \in DOMAIN low |-> IF low[i] \in KeptChars THEN low[i] ELSE "_"]

\* The maximal parts of s without "_", joined by single "_": s with each
\* run of "_" collapsed to one and the leading and trailing "_" stripped
RECURSIVE JoinedParts(_, _)
JoinedParts(s, part) ==
    IF s = <<>> THEN part
    ELSE IF Head(s) # "_" THEN JoinedParts(Tail(s), Append(part, Head(s)))
    ELSE LET rest == JoinedParts(Tail(s), <<>>)
         IN  IF part = <<>> THEN rest
             ELSE IF rest = <<>> THEN part
             ELSE part \o <<"_">> \o rest

\* C20: _clean_subcategory_name returns its input in lower case, every
\* character other than letters, digits, "_" and "-" replaced by "_", each
\* run of "_" collapsed to one and leading and trailing "_" stripped, and
\* "general" when that is empty; for "Road  Construction!" it returns
\* "road_construction".
C20_CleanedName ==
    \A p \in Procs :
        CleanDone(p) =>
            LET expected == JoinedParts(Replaced(loc[p].name), <<>>)
            IN  /\ loc[p].cleaned = IF expected = <<>> THEN General ELSE expected
                /\ loc[p].name = RoadConstruction =>
                       loc[p].cleaned = <<"r","o","a","d","_","c","o","n","s","t","r","u","c","t","i","o","n">>

\* The call on "Road  Construction!" has returned "road_construction",
\* a name with a run of blanks collapsed and a trailing "!" stripped
C20_RoadConstructionCleaned ==
    \E p \in Procs :
        /\ CleanDone(p)
        /\ loc[p].name = RoadConstruction
        /\ loc[p].cleaned = <<"r","o","a","d","_","c","o","n","s","t","r","u","c","t","i","o","n">>

\* |intersection| / |union| of the word sets of two texts in lower case
OverlapScore(text, candidate) ==
    LET a == Words(Lower(text))
        b == Words(Lower(candidate))
    IN  IF a \cup b = {} THEN 0 ELSE Score(Cardinality(a \cap b), Cardinality(a \cup b))

\* The overlap scores of the rows of the topic's table with the request
RowScores(l) ==
    LET rows == FALLBACK_SUBCATEGORIES[l.topic]
    IN  [i \in DOMAIN rows |->
            OverlapScore(l.title \o <<" ">> \o l.description,
                         rows[i].name \o <<" ">> \o rows[i].description)]

\* A fallback classification that has returned its result
FallbackDone(p) ==
    ClassifyDone(p) /\ loc[p].path = "fallback" /\ loc[p].ret.kind = "value"

\* C21: the fallback returns the name of the table row whose overlap
\* score with the request text is highest, the first such row on a tie,
\* with that score as confidence, when the score exceeds 0.2; otherwise it
\* returns "general"; the confidence is never below 0.2.
C21_FallbackPicksBestRow ==
    \A p \in Procs :
        FallbackDone(p) =>
            LET l == loc[p]
                rows == FALLBACK_SUBCATEGORIES[l.topic]
                scores == RowScores(l)
                top == Max(Range(scores) \cup {0})
                result == l.ret.result[1]
            IN  /\ result.confidence_score >= Score(2, 10)
                /\ IF top > Score(2, 10)
                   THEN /\ result.subcategory_name =
                              rows[Min({i \in DOMAIN rows : scores[i] = top})].name
                        /\ result.confidence_score = top
                   ELSE result.subcategory_name = General

\* One fallback classification has returned the first of several rows of
\* equal highest score, and another either "general" for a text whose
\* best row scores 0.2 exactly or a row that beats the first of its table
C21_TieLaterRowAndFloor ==
    /\ \E p \in Procs :
        /\ FallbackDone(p)
        /\ LET scores == RowScores(loc[p])
               top == Max(Range(scores) \cup {0})
           IN  /\ top > Score(2, 10)
               /\ Cardinality({i \in DOMAIN scores : scores[i] = top}) > 1
    /\ \E p \in Procs :
        /\ FallbackDone(p)
        /\ \/ /\ loc[p].ret.result[1].subcategory_name = General
              /\ Max(Range(RowScores(loc[p])) \cup {0}) = Score(2, 10)
           \/ /\ loc[p].ret.result[1].subcategory_name # General
              /\ RowScores(loc[p])[1] < loc[p].ret.result[1].confidence_score

\* A confidence brought into [0, 1]
Clamped(score) == IF score > ScoreScale THEN ScoreScale ELSE IF score < 0 THEN 0 ELSE score

\* C22: the step that parses a completion that is a JSON object gives the
\* AI result the normalised name of the object and its confidence_score
\* brought into [0, 1] (above 1 becomes 1, below 0 becomes 0), and 0.5 when
\* the object has no confidence_score.
C22_ConfidenceClamped ==
    [][\A p \in Procs, a \in ParseAnswers :
          (a.kind = "json" /\ ClassifyAIWith(p, a)) =>
              /\ loc'[p].ai # None
              /\ loc'[p].ai[1].name = _clean_subcategory_name(a.name)
              /\ loc'[p].ai[1].conf =
                     Clamped(IF a.conf = None THEN Score(5, 10) ELSE a.conf[1])]_vars

\* The entry has the name among its aliases, ignoring case
HasAlias(sc, name_lower) ==
    \E i \in DOMAIN sc.aliases : Lower(sc.aliases[i]) = name_lower

\* C23: the step that ends _find_subcategory_by_name_or_alias raises
\* nothing and returns an entry of the listing whose name is the query in
\* lower case and trimmed whenever the listing has one; when it has none,
\* an entry with the query among its aliases; and none when nothing matches.
C23_NameBeforeAlias ==
    [][\A p \in Procs :
          (loc[p].op = "find" /\ loc[p].pc = "find_list" /\ loc'[p].pc = "done") =>
              LET listed == Range(loc'[p].subcategories)
                  q == Canon(loc[p].name)
                  found == loc'[p].resolved
              IN  /\ loc'[p].ret.kind = "value"
                  /\ IF \E sc \in listed : sc.name = q
                     THEN found # None /\ found[1] \in listed /\ found[1].name = q
                     ELSE IF \E sc \in listed : HasAlias(sc, q)
                     THEN found # None /\ found[1] \in listed /\ HasAlias(found[1], q)
                     ELSE found = None]_vars

\* C24: in every reachable state the confidence_scores of every entry
\* holds no more than the 10 most recent supplied scores.
C24_ScoresWindowBounded ==
    \A i \in DOMAIN store : Len(store[i].metadata.confidence_scores) <= 10

\* The caller p takes a step of an update_subcategory_usage call
UsageStepOf(p) ==
    /\ loc[p].op = "usage"
    /\ loc[p].pc \in {"us_get", "us_write", "us_mock"}
    /\ loc'[p] # loc[p]

ScanName(names, text, topic) ==
    LET text_lower == Lower(text)
        named == {i \in DOMAIN names : IsSubstring(names[i], text_lower)}
        byKeyword == {i \in DOMAIN keyword_mapping[topic] :
                         \E k \in DOMAIN keyword_mapping[topic][i].keywords :
                             IsSubstring(keyword_mapping[topic][i].keywords[k], text_lower)}
    IN  IF named # {} THEN names[Min(named)]
        ELSE IF byKeyword # {} THEN keyword_mapping[topic][Min(byKeyword)].name
        ELSE General

\* C26: the step that receives a completion that is no JSON gives the AI
\* result confidence 0.3, is_new_subcategory false, and as name the first
\* name of the request's snapshot of the topic's stored names that occurs
\* in the text, else the first keyword-table entry with a keyword in the
\* text, else "general".
C26_HeuristicScansSnapshot ==
    [][\A p \in Procs, a \in ParseAnswers :
          (a.kind = "text" /\ ClassifyAIWith(p, a)) =>
              /\ loc'[p].ai # None
              /\ loc'[p].ai[1].conf = Score(3, 10)
              /\ ~loc'[p].ai[1].is_new
              /\ loc'[p].ai[1].name = ScanName(loc[p].existing, a.text, loc[p].topic)]_vars

\* The number of updates of usage statistics that have succeeded
UsageRecorded == Cardinality({i \in DOMAIN log : log[i].ev = "usage_ok"})

\* C27: a step of classify_subcategory inside update_subcategory_usage
\* either stays inside it, on the same entry and the same path, or ends
\* the call, so that a call invokes it at most once (after the AI path has
\* recorded usage the fallback does not run); and the updates that have
\* succeeded are never more than the calls started.
C27_UsageAtMostOncePerCall ==
    /\ [](UsageRecorded <= calls)
    /\ [][\A p \in Procs :
            (/\ loc[p].op = "classify"
             /\ loc[p].pc \in {"us_get", "us_write", "us_mock"}
             /\ loc'[p] # loc[p]) =>
                \/ loc'[p].pc = "done"
                \/ /\ loc'[p].pc \in {"us_get", "us_write", "us_mock"}
                   /\ loc'[p].target = loc[p].target
                   /\ loc'[p].path = loc[p].path]_vars

\* One call took the AI path, resolved no entry, fell back, resolved one
\* and returned, and usage has been recorded once; no other call started
C27_BothPathsOneUpdate ==
    /\ calls = 1
    /\ UsageRecorded = 1
    /\ \E p \in Procs :
        /\ loc[p].op = "classify" /\ loc[p].pc = "done"
        /\ loc[p].ai # None
        /\ loc[p].path = "fallback"
        /\ loc[p].resolved # None

\* The runs of the seeding loop that initialize has started: those under
\* way and those that have returned
SeedingRuns ==
    Cardinality({p \in Procs : loc[p].op = "initialize"
                                 /\ loc[p].pc \in {"cr_query", "cr_set", "cr_mock"}})
    + Cardinality({i \in DOMAIN log : log[i].ev = "seeded"})

\* C28: in every reachable state the initialize calls of the processor
\* have started the predefined seeding at most once.
C28_SeedsAtMostOnce == SeedingRuns <= 1

\* C29: with get_or_create_subcategory calls that never overlap, whatever
\* store reads fail, the store never holds two active entries with the
\* same topic and name, nor an active entry whose name is an alias of
\* another active entry of its topic.
C29_ReadFailureAddsNoDuplicate ==
    \A i, j \in DOMAIN store :
        (/\ i # j
         /\ store[i].status = "active"
         /\ store[j].status = "active"
         /\ store[i].topic = store[j].topic)
        => /\ store[i].name # store[j].name
           /\ ~HasAlias(store[j], store[i].name)

\* C30: the name every returned _clean_subcategory_name call gave passes
\* the Subcategory name validation (1 to 50 characters, alphanumeric once
\* "_" and "-" are removed) and cleaning it again gives the same name.
C30_CleanedNameValidFixedPoint ==
    \A p \in Procs :
        CleanDone(p) =>
            /\ NameValid(loc[p].cleaned)
            /\ _clean_subcategory_name(loc[p].cleaned) = loc[p].cleaned

====
